---- MODULE Spec2Model ----
(***************************************************************************)
(* GitLab Issue Manager: the issue fetcher (paginated GraphQL retrieval)   *)
(* and the issue mutators (REST create / update / label replacement), as   *)
(* implemented by app/lib/gitlab.ts and by the two terminal commands:      *)
(* scripts/issues-cli.js (list, update) and the create-issue script; the   *)
(* handlers of the dashboard component that holds a fetched result; and    *)
(* the pure helpers resolveRestEndpoint and applyFilters / filteredIssues.  *)
(*                                                                         *)
(* An optional JavaScript value (undefined / null / absent key) is a       *)
(* sequence of length 0 (None) or 1 (Some(v)).  A thrown Error is its      *)
(* message, a non-empty sequence of string tokens.                         *)
(***************************************************************************)
EXTENDS Integers, Sequences, FiniteSets, TLC

VARIABLES
  pc,          \* position of the running call: idle, loop, await, done, failed
  op,          \* the call: its name, surface and arguments
  sent,        \* every request dispatched so far, in dispatch order
  inflight,    \* requests dispatched and not yet answered
  received,    \* every response received so far, in arrival order
  issues,      \* fetchProjectIssues: const issues = []
  pageInfo,    \* fetchProjectIssues: let pageInfo
  projectMeta, \* fetchProjectIssues: let projectMeta / project
  labels,      \* fetchProjectIssues: let labels
  result,      \* the value the call returned (None while it has not)
  error,       \* the message of the Error the call threw (None while it has not)
  \* the state of IssueManagerDashboard
  projectData, \* useState<ProjectIssuesResult | null>(null)
  dashError,   \* const [error, setError] = useState<string | null>(null)
  createError, \* useState<string | null>(null)
  editingIssue, \* useState<GitLabIssue | null>(null)
  editForm,    \* useState<CreateFormState>(DEFAULT_CREATE)
  editError,   \* useState<string | null>(null)
  isLoading,   \* useState(false)
  isCreating,  \* useState(false)
  isEditing,   \* useState(false)
  isUpdating,  \* useState<string | null>(null)
  calls,       \* the callApi requests that have not settled yet
  issued,      \* the number of callApi requests issued so far
  lastOutcome, \* the callApi request that settled last, and how
  \* a call of one of the pure helpers
  applied      \* the helper applied last, its arguments and what it returned

dashVars == <<projectData, dashError, createError, editingIssue, editForm,
              editError, isLoading, isCreating, isEditing, isUpdating, calls,
              issued, lastOutcome>>

callVars == <<pc, op, sent, inflight, received, issues, pageInfo, projectMeta,
              labels, result, error>>

vars == <<pc, op, sent, inflight, received, issues, pageInfo, projectMeta,
          labels, result, error, projectData, dashError, createError,
          editingIssue, editForm, editError, isLoading, isCreating, isEditing,
          isUpdating, calls, issued, lastOutcome, applied>>

fetchLocals == <<issues, pageInfo, projectMeta, labels>>

----------------------------------------------------------------------------
(* Bounds of the model *)

\* provider issue numbers are 1..MaxId
MaxId == 2
\* the provider answers at most MaxPages pages to one fetch
MaxPages == 2

----------------------------------------------------------------------------
(* Optional values *)

None == <<>>
Some(v) == <<v>>
\* a ?? b
Coalesce(opt, default) == IF opt = None THEN default ELSE opt[1]

----------------------------------------------------------------------------
(* Program constants *)

DEFAULT_GRAPHQL_ENDPOINT == "https://gitlab.com/api/graphql"
DEFAULT_REST_ENDPOINT == "https://gitlab.com/api/v4"
DEFAULT_ISSUE_PAGE_SIZE == 50

\* const DEFAULT_CREATE: CreateFormState
DEFAULT_CREATE == [title |-> "", description |-> "", labels |-> <<>>]

----------------------------------------------------------------------------
(* The provider's GraphQL values *)

\* String(n) of a number n: its decimal digits
StringOf(n) == ToString(n)

\* the provider names an issue differently in its two interfaces: the
\* GraphQL field id is the global id gid://gitlab/Issue/<n>, the REST field
\* id is the number <n> itself
Gid(n) == "gid://gitlab/Issue/" \o StringOf(n)

\* one entry of project.issues.nodes; the nested connections may be null
GqlNode(n) ==
  [id |-> Gid(n), iid |-> StringOf(n),
   title |-> IF n % 2 = 1 THEN "Login fails" ELSE "Polish",
   description |-> IF n % 2 = 1 THEN None ELSE Some("D"),
   state |-> IF n % 2 = 1 THEN "opened" ELSE "closed",
   assignees |-> IF n % 2 = 1 THEN None ELSE Some(<<"alice">>),
   labels |-> IF n % 3 = 1 THEN None ELSE Some(<<[title |-> "bug"]>>)]

RECURSIVE InjectiveSeqs(_, _)
\* the sequences over S of length <= n that list no element twice
InjectiveSeqs(S, n) ==
  IF n = 0 \/ S = {} THEN {<<>>}
  ELSE {<<>>} \cup
       UNION {{<<x>> \o t : t \in InjectiveSeqs(S \ {x}, n - 1)} : x \in S}

RECURSIVE NodesOf(_)
NodesOf(s) == IF s = <<>> THEN <<>> ELSE <<GqlNode(Head(s))>> \o NodesOf(Tail(s))

\* the node lists one page may carry (a page lists an issue at most once)
NodeLists == {NodesOf(s) : s \in InjectiveSeqs(1..MaxId, MaxId)}

\* project { id name webUrl labels { nodes } } as it may differ between pages
SnapshotA ==
  [id |-> "gid://gitlab/Project/1", name |-> "alpha",
   webUrl |-> "https://gitlab.com/g/alpha",
   labels |-> Some(<<[title |-> "bug"]>>)]

SnapshotB ==
  [id |-> "gid://gitlab/Project/1", name |-> "alpha-renamed",
   webUrl |-> "https://gitlab.com/g/alpha",
   labels |-> Some(<<[title |-> "bug"], [title |-> "ui"]>>)]

SnapshotC ==
  [id |-> "gid://gitlab/Project/1", name |-> "alpha",
   webUrl |-> "https://gitlab.com/g/alpha", labels |-> None]

\* the tail of a page: its project snapshot and its issues.pageInfo (which
\* may be null)
PageTails ==
  {[snapshot |-> SnapshotA,
    pageInfo |-> Some([hasNextPage |-> TRUE, endCursor |-> Some("c1")])],
   [snapshot |-> SnapshotB,
    pageInfo |-> Some([hasNextPage |-> TRUE, endCursor |-> Some("c2")])],
   [snapshot |-> SnapshotC,
    pageInfo |-> Some([hasNextPage |-> FALSE, endCursor |-> Some("c2")])],
   [snapshot |-> SnapshotA,
    pageInfo |-> Some([hasNextPage |-> FALSE, endCursor |-> None])],
   [snapshot |-> SnapshotB, pageInfo |-> None]}

ProjectNodes ==
  {[id |-> t.snapshot.id, name |-> t.snapshot.name, webUrl |-> t.snapshot.webUrl,
    labels |-> t.snapshot.labels, nodes |-> n, pageInfo |-> t.pageInfo]
     : t \in PageTails, n \in {Some(l) : l \in NodeLists} \cup {None}}

\* an HTTP response to the GraphQL POST
GraphQLResponses ==
  {[ok |-> FALSE, status |-> "500", statusText |-> "Internal Server Error",
    errors |-> <<>>, project |-> None],
   [ok |-> FALSE, status |-> "401", statusText |-> "Unauthorized",
    errors |-> <<>>, project |-> None],
   [ok |-> TRUE, status |-> "200", statusText |-> "OK",
    errors |-> <<"boom">>, project |-> None],
   [ok |-> TRUE, status |-> "200", statusText |-> "OK",
    errors |-> <<"boom", "bang">>, project |-> None],
   [ok |-> TRUE, status |-> "200", statusText |-> "OK",
    errors |-> <<>>, project |-> None],
   \* a failure status whose body carries errors as well
   [ok |-> FALSE, status |-> "500", statusText |-> "Internal Server Error",
    errors |-> <<"boom">>, project |-> None],
   \* errors next to partial data
   [ok |-> TRUE, status |-> "200", statusText |-> "OK",
    errors |-> <<"boom">>,
    project |-> Some([id |-> SnapshotA.id, name |-> SnapshotA.name,
                      webUrl |-> SnapshotA.webUrl, labels |-> SnapshotA.labels,
                      nodes |-> None, pageInfo |-> None])]}
  \cup
  {[ok |-> TRUE, status |-> "200", statusText |-> "OK", errors |-> <<>>,
    project |-> Some(p)] : p \in ProjectNodes}

----------------------------------------------------------------------------
(* Inputs of a call *)

ProjectPaths == {"", "g/alpha"}
Tokens == {"", "glpat-1"}

----------------------------------------------------------------------------
(* fetchProjectIssues: the helpers shared by app/lib/gitlab.ts and         *)
(* scripts/issues-cli.js                                                   *)

\* a fetcher that restarts from the first page on every request
AfterCursor_AlwaysNull(pi) == None

\* after: pageInfo?.endCursor ?? null
AfterCursor(pi) == IF pi = None THEN None ELSE pi[1].endCursor

\* the body of the GraphQL POST of one loop iteration
IssuePageRequest(fullPath, first, pi) ==
  [kind |-> "graphql", method |-> "POST", url |-> DEFAULT_GRAPHQL_ENDPOINT,
   fullPath |-> fullPath, first |-> first, after |-> AfterCursor(pi)]

\* (node) => ({ id: node.id, ..., assignees: node.assignees?.nodes ?? [],
\*              labels: node.labels?.nodes ?? [] })
MapNode(node) ==
  [id |-> node.id, iid |-> node.iid, title |-> node.title,
   description |-> node.description, state |-> node.state,
   assignees |-> Coalesce(node.assignees, <<>>),
   labels |-> Coalesce(node.labels, <<>>)]

RECURSIVE MapNodes(_)
MapNodes(nodes) ==
  IF nodes = <<>> THEN <<>> ELSE <<MapNode(Head(nodes))>> \o MapNodes(Tail(nodes))

\* const pageIssues = project.issues.nodes?.map(...) ?? []
PageIssues(project) ==
  IF project.nodes = None THEN <<>> ELSE MapNodes(project.nodes[1])

\* a fetcher that keeps only the latest page
PushAll_Overwrite(acc, pageIssues) == pageIssues

\* a fetcher that pushes every page twice
PushAll_Twice(acc, pageIssues) == acc \o pageIssues \o pageIssues

\* issues.push(...pageIssues)
PushAll(acc, pageIssues) == acc \o pageIssues

\* projectMeta = { id: project.id, name: project.name, webUrl: project.webUrl }
ProjectRef(project) ==
  [id |-> project.id, name |-> project.name, webUrl |-> project.webUrl]

\* a fetcher that adds the labels of every page to those it has
NextLabels_Merged(project, prev) == prev \o Coalesce(project.labels, <<>>)

\* labels = project.labels.nodes ?? labels
NextLabels(project, prev) == Coalesce(project.labels, prev)

\* projectMeta ?? { id: "unknown", name: projectFullPath, webUrl: "" }
ResultProject(meta, projectFullPath) ==
  Coalesce(meta, [id |-> "unknown", name |-> projectFullPath, webUrl |-> ""])

\* return { project, issues, labels }
ProjectIssuesResult(meta, projectFullPath, iss, lbls) ==
  [project |-> ResultProject(meta, projectFullPath), issues |-> iss, labels |-> lbls]

RECURSIVE JoinMessages(_)
\* payload.errors.map((err) => err.message).join("; ")
JoinMessages(errors) ==
  IF Len(errors) <= 1 THEN errors
  ELSE <<Head(errors), "; ">> \o JoinMessages(Tail(errors))

\* pageInfo?.hasNextPage, as a condition
HasNextPage(pi) == pi # None /\ pi[1].hasNextPage

\* a fetcher that swallows the failure and tries the page again
Throw_Retry(message) == pc' = "loop" /\ UNCHANGED <<result, error>>

\* throw new Error(message)
Throw(message) == pc' = "failed" /\ error' = message /\ UNCHANGED result

\* return value
Return(value) == pc' = "done" /\ result' = Some(value) /\ UNCHANGED error

\* the provider is finite: its last page does not announce another one
Announces(resp) ==
  /\ resp.ok /\ resp.errors = <<>> /\ resp.project # None
  /\ HasNextPage(resp.project[1].pageInfo)

WithinPages(resp) == Len(received) + 1 < MaxPages \/ ~Announces(resp)

\* a fetch whose request never leaves, so that its promise never settles
Dispatch_Lost(request) == UNCHANGED <<sent, inflight>>

\* const response = await fetch(...): the request leaves
Dispatch(request) ==
  /\ sent' = Append(sent, request)
  /\ inflight' = Append(inflight, request)

\* the awaited response arrives
Arrive(resp) ==
  /\ inflight # <<>>
  /\ inflight' = Tail(inflight)
  /\ received' = Append(received, resp)

----------------------------------------------------------------------------
(* fetchProjectIssues of app/lib/gitlab.ts *)

\* a fetcher that forgets the token precondition
LibFetchCall_NoTokenCheck(projectFullPath, token) ==
  /\ pc = "idle"
  /\ op' = [name |-> "fetchProjectIssues", surface |-> "lib",
            projectPath |-> projectFullPath, token |-> token,
            pageSize |-> DEFAULT_ISSUE_PAGE_SIZE]
  /\ IF projectFullPath = ""
     THEN Throw(<<"Missing GitLab project full path.">>) /\ UNCHANGED fetchLocals
     ELSE /\ pc' = "loop"
          /\ issues' = <<>>
          /\ pageInfo' = None
          /\ projectMeta' = None
          /\ labels' = <<>>
          /\ UNCHANGED <<result, error>>
  /\ UNCHANGED <<sent, inflight, received>>

\* the call, up to the top of the do-loop
LibFetchCall(projectFullPath, token) ==
  /\ pc = "idle"
  /\ op' = [name |-> "fetchProjectIssues", surface |-> "lib",
            projectPath |-> projectFullPath, token |-> token,
            pageSize |-> DEFAULT_ISSUE_PAGE_SIZE]
  /\ IF projectFullPath = ""
     THEN Throw(<<"Missing GitLab project full path.">>) /\ UNCHANGED fetchLocals
     ELSE IF token = ""
     THEN Throw(<<"Missing GitLab access token.">>) /\ UNCHANGED fetchLocals
     ELSE /\ pc' = "loop"
          /\ issues' = <<>>
          /\ pageInfo' = None
          /\ projectMeta' = None
          /\ labels' = <<>>
          /\ UNCHANGED <<result, error>>
  /\ UNCHANGED <<sent, inflight, received>>

\* do { const response = await fetch(apiUrl, {...
LibFetchSend ==
  /\ pc = "loop"
  /\ op.surface = "lib"
  /\ Dispatch(IssuePageRequest(op.projectPath, op.pageSize, pageInfo))
  /\ pc' = "await"
  /\ UNCHANGED <<op, received, fetchLocals, result, error>>

\* a fetcher that looks for the project before it looks at the errors
LibFetchReceive_ProjectFirst(resp) ==
  /\ pc = "await"
  /\ op.surface = "lib"
  /\ WithinPages(resp)
  /\ Arrive(resp)
  /\ IF ~resp.ok
     THEN /\ Throw(<<"GitLab GraphQL responded with", resp.status, resp.statusText>>)
          /\ UNCHANGED fetchLocals
     ELSE IF resp.project = None
     THEN Throw(<<"Project not found or access denied.">>) /\ UNCHANGED fetchLocals
     ELSE IF Len(resp.errors) > 0
     THEN Throw(JoinMessages(resp.errors)) /\ UNCHANGED fetchLocals
     ELSE LET project == resp.project[1] IN
          /\ projectMeta' = Some(ProjectRef(project))
          /\ labels' = NextLabels(project, labels)
          /\ issues' = PushAll(issues, PageIssues(project))
          /\ pageInfo' = project.pageInfo
          /\ IF HasNextPage(project.pageInfo)
             THEN pc' = "loop" /\ UNCHANGED <<result, error>>
             ELSE Return(ProjectIssuesResult(projectMeta', op.projectPath,
                                             issues', labels'))
  /\ UNCHANGED <<op, sent>>

\* ... the rest of the loop body, the loop condition and the return
LibFetchReceive(resp) ==
  /\ pc = "await"
  /\ op.surface = "lib"
  /\ WithinPages(resp)
  /\ Arrive(resp)
  /\ IF ~resp.ok
     THEN /\ Throw(<<"GitLab GraphQL responded with", resp.status, resp.statusText>>)
          /\ UNCHANGED fetchLocals
     ELSE IF Len(resp.errors) > 0
     THEN Throw(JoinMessages(resp.errors)) /\ UNCHANGED fetchLocals
     ELSE IF resp.project = None
     THEN Throw(<<"Project not found or access denied.">>) /\ UNCHANGED fetchLocals
     ELSE LET project == resp.project[1] IN
          /\ projectMeta' = Some(ProjectRef(project))
          /\ labels' = NextLabels(project, labels)
          /\ issues' = PushAll(issues, PageIssues(project))
          /\ pageInfo' = project.pageInfo
          /\ IF HasNextPage(project.pageInfo)
             THEN pc' = "loop" /\ UNCHANGED <<result, error>>
             ELSE Return(ProjectIssuesResult(projectMeta', op.projectPath,
                                             issues', labels'))
  /\ UNCHANGED <<op, sent>>

----------------------------------------------------------------------------
(* The list command of scripts/issues-cli.js: main, listIssues and its     *)
(* fetchProjectIssues                                                      *)

\* while (pageInfo?.hasNextPage !== false)
CliWhile(pi) == ~(pi # None /\ pi[1].hasNextPage = FALSE)

\* pageInfo = projectNode.issues?.pageInfo ?? { hasNextPage: false }
CliPageInfo(project) ==
  Some(Coalesce(project.pageInfo, [hasNextPage |-> FALSE, endCursor |-> None]))

\* main: requireValue(token, ...); requireValue(projectPath, ...); then
\* listIssues calls fetchProjectIssues, up to the top of the while-loop
CliListCall(projectPath, token) ==
  /\ pc = "idle"
  /\ op' = [name |-> "fetchProjectIssues", surface |-> "cli",
            projectPath |-> projectPath, token |-> token,
            pageSize |-> DEFAULT_ISSUE_PAGE_SIZE]
  /\ IF token = ""
     THEN /\ Throw(<<"Missing token. Set GITLAB_TOKEN or pass --token.">>)
          /\ UNCHANGED fetchLocals
     ELSE IF projectPath = ""
     THEN /\ Throw(<<"Missing project path. Set GITLAB_PROJECT_PATH or pass --project.">>)
          /\ UNCHANGED fetchLocals
     ELSE /\ issues' = <<>>
          /\ labels' = <<>>
          /\ projectMeta' = None
          /\ pageInfo' = Some([hasNextPage |-> TRUE, endCursor |-> None])
          /\ pc' = "loop"
          /\ UNCHANGED <<result, error>>
  /\ UNCHANGED <<sent, inflight, received>>

\* const response = await fetch(endpoint, {...
CliFetchSend ==
  /\ pc = "loop"
  /\ op.surface = "cli"
  /\ CliWhile(pageInfo)
  /\ Dispatch(IssuePageRequest(op.projectPath, op.pageSize, pageInfo))
  /\ pc' = "await"
  /\ UNCHANGED <<op, received, fetchLocals, result, error>>

\* ... the rest of the loop body, the break and the return
CliFetchReceive(resp) ==
  /\ pc = "await"
  /\ op.surface = "cli"
  /\ WithinPages(resp)
  /\ Arrive(resp)
  /\ IF ~resp.ok
     THEN /\ Throw(<<"GitLab GraphQL responded", resp.status, resp.statusText>>)
          /\ UNCHANGED fetchLocals
     ELSE IF Len(resp.errors) > 0
     THEN Throw(JoinMessages(resp.errors)) /\ UNCHANGED fetchLocals
     ELSE IF resp.project = None
     THEN Throw(<<"Project not found or access denied.">>) /\ UNCHANGED fetchLocals
     ELSE LET projectNode == resp.project[1] IN
          /\ projectMeta' = Some(ProjectRef(projectNode))
          /\ labels' = NextLabels(projectNode, labels)
          /\ issues' = PushAll(issues, PageIssues(projectNode))
          /\ pageInfo' = CliPageInfo(projectNode)
          /\ IF HasNextPage(pageInfo') /\ CliWhile(pageInfo')
             THEN pc' = "loop" /\ UNCHANGED <<result, error>>
             ELSE Return(ProjectIssuesResult(projectMeta', op.projectPath,
                                             issues', labels'))
  /\ UNCHANGED <<op, sent>>

----------------------------------------------------------------------------
(* The fetcher as a state machine *)

Init ==
  /\ pc = "idle"
  /\ op = [name |-> "none"]
  /\ sent = <<>>
  /\ inflight = <<>>
  /\ received = <<>>
  /\ issues = <<>>
  /\ pageInfo = None
  /\ projectMeta = None
  /\ labels = <<>>
  /\ result = None
  /\ error = None
  /\ projectData = None
  /\ dashError = None
  /\ createError = None
  /\ editingIssue = None
  /\ editForm = DEFAULT_CREATE
  /\ editError = None
  /\ isLoading = FALSE
  /\ isCreating = FALSE
  /\ isEditing = FALSE
  /\ isUpdating = None
  /\ calls = {}
  /\ issued = 0
  /\ lastOutcome = None
  /\ applied = None

Next ==
  \/ /\ \E p \in ProjectPaths, t \in Tokens : LibFetchCall(p, t)
     /\ UNCHANGED <<dashVars, applied>>
  \/ /\ LibFetchSend
     /\ UNCHANGED <<dashVars, applied>>
  \/ /\ \E resp \in GraphQLResponses : LibFetchReceive(resp)
     /\ UNCHANGED <<dashVars, applied>>
  \/ /\ \E p \in ProjectPaths, t \in Tokens : CliListCall(p, t)
     /\ UNCHANGED <<dashVars, applied>>
  \/ /\ CliFetchSend
     /\ UNCHANGED <<dashVars, applied>>
  \/ /\ \E resp \in GraphQLResponses : CliFetchReceive(resp)
     /\ UNCHANGED <<dashVars, applied>>

Spec == Init /\ [][Next]_vars

\* the steps a call takes by itself once it was made: the loop body runs up
\* to its await, and the awaited response arrives
FetchProgress ==
  \/ /\ LibFetchSend
     /\ UNCHANGED <<dashVars, applied>>
  \/ /\ \E resp \in GraphQLResponses : LibFetchReceive(resp)
     /\ UNCHANGED <<dashVars, applied>>
  \/ /\ CliFetchSend
     /\ UNCHANGED <<dashVars, applied>>
  \/ /\ \E resp \in GraphQLResponses : CliFetchReceive(resp)
     /\ UNCHANGED <<dashVars, applied>>

\* the fetcher under a provider that answers every request and a runtime
\* that runs the continuation of every settled await
LiveSpec == Init /\ [][Next]_vars /\ WF_vars(FetchProgress)

----------------------------------------------------------------------------
(* The provider's REST values *)

\* the JSON of an issue as the REST API returns it; optional keys may be absent
RestIssueFull ==
  [id |-> 101, iid |-> 7, title |-> "T", description |-> Some("D"),
   state |-> "opened",
   author |-> Some([id |-> 5, name |-> "Alice", username |-> "alice"]),
   assignees |-> Some(<<[id |-> 5, name |-> "Alice", username |-> "alice"]>>),
   labels |-> Some(<<"bug", "ui">>),
   health_status |-> Some("on_track"),
   time_stats |-> Some([time_estimate |-> Some(5400)])]

RestIssueBare ==
  [id |-> 102, iid |-> 7, title |-> "T", description |-> None,
   state |-> "closed", author |-> None, assignees |-> None, labels |-> None,
   health_status |-> None, time_stats |-> None]

\* an HTTP response to a REST POST or PUT
RestResponses ==
  {[ok |-> TRUE, status |-> "200", statusText |-> "OK", text |-> "", json |-> RestIssueFull],
   [ok |-> TRUE, status |-> "200", statusText |-> "OK", text |-> "", json |-> RestIssueBare],
   [ok |-> FALSE, status |-> "404", statusText |-> "Not Found",
    text |-> "{\"message\":\"404 Project Not Found\"}", json |-> RestIssueBare]}

----------------------------------------------------------------------------
(* Helpers of the mutators *)

RECURSIVE Join(_, _)
\* array.join(sep), as the tokens of the joined string
Join(seq, sep) ==
  IF Len(seq) <= 1 THEN seq ELSE <<Head(seq), sep>> \o Join(Tail(seq), sep)

\* input.labels?.join(",")
JoinLabels(optLabels) ==
  IF optLabels = None THEN None ELSE Some(Join(optLabels[1], ","))

\* if (value) for an optional string: present and not ""
TruthyString(opt) == opt # None /\ opt[1] # ""

\* a body whose keys are all written, their values undefined or not
BodyKeys_All(body) == DOMAIN body

\* the keys JSON.stringify writes: those whose value is not undefined
BodyKeys(body) == {k \in DOMAIN body : body[k] # None}

\* `${restBase}/projects/${encodedProject}/issues`
IssuesUrl(projectPath) ==
  <<DEFAULT_REST_ENDPOINT, "/projects/", projectPath, "/issues">>

\* `${restBase}/projects/${encodedProject}/issues/${encodeURIComponent(iid)}`
IssueUrl(projectPath, iid) ==
  <<DEFAULT_REST_ENDPOINT, "/projects/", projectPath, "/issues/", iid>>

RestRequest(method, url, body) ==
  [kind |-> "rest", method |-> method, url |-> url, body |-> body]

MapRestUser(u) ==
  [id |-> StringOf(u.id), name |-> u.name, username |-> u.username]

RECURSIVE MapRestUsers(_)
MapRestUsers(us) ==
  IF us = <<>> THEN <<>> ELSE <<MapRestUser(Head(us))>> \o MapRestUsers(Tail(us))

RECURSIVE MapRestLabels(_)
\* payload.labels.map((name) => ({ title: name }))
MapRestLabels(names) ==
  IF names = <<>> THEN <<>>
  ELSE <<[title |-> Head(names)]>> \o MapRestLabels(Tail(names))

\* payload.labels?.map((title) => ({ title })) ?? []
MapRestLabelsOrEmpty(payload) ==
  IF payload.labels = None THEN <<>> ELSE MapRestLabels(payload.labels[1])

\* the REST payload mapped to the normalized issue (createIssue, updateIssue)
MapRestIssue(payload) ==
  [id |-> StringOf(payload.id),
   iid |-> StringOf(payload.iid),
   title |-> payload.title,
   description |-> payload.description,
   state |-> payload.state,
   author |-> IF payload.author # None
              THEN Some(MapRestUser(payload.author[1])) ELSE None,
   assignees |-> IF payload.assignees = None THEN <<>>
                 ELSE MapRestUsers(payload.assignees[1]),
   labels |-> MapRestLabelsOrEmpty(payload),
   healthStatus |-> payload.health_status,
   timeEstimate |-> IF payload.time_stats = None THEN None
                    ELSE payload.time_stats[1].time_estimate]

----------------------------------------------------------------------------
(* The mutators of app/lib/gitlab.ts *)

\* CreateIssueInput
CreateIssueInputs ==
  [title : {"", "T"},
   description : {None, Some("D")},
   labels : {None, Some(<<>>), Some(<<"bug", "ui">>)},
   healthStatus : {None, Some("on_track"), Some("bogus")},
   timeEstimateSeconds : {None, Some(Some(0)), Some(Some(5400))}]

\* UpdateIssueLabelsInput
UpdateIssueLabelsInputs ==
  [issueIid : {"", "7"},
   labels : {<<>>, <<"bug">>, <<"bug", "ui">>, <<"a,b">>, <<"">>}]

\* UpdateIssueInput; timeEstimateSeconds may be a number, null or absent
UpdateIssueInputs ==
  [issueIid : {"", "7"},
   title : {None, Some(""), Some("T")},
   description : {None, Some(""), Some("D")},
   labels : {None, Some(<<>>), Some(<<"bug", "ui">>)},
   stateEvent : {None, Some(""), Some("close"), Some("reopen"), Some("bogus")},
   healthStatus : {None, Some(""), Some("on_track"), Some("bogus")},
   timeEstimateSeconds : {None, Some(None), Some(Some(0)), Some(Some(5400))}]

\* createIssue: the body of the POST
CreateIssueBody(input) ==
  [title |-> Some(input.title),
   description |-> input.description,
   labels |-> JoinLabels(input.labels),
   health_status |-> input.healthStatus,
   time_estimate |-> input.timeEstimateSeconds]

\* createIssue, up to await fetch(url, ...)
LibCreateIssue(projectFullPath, token, input) ==
  /\ pc = "idle"
  /\ op' = [name |-> "createIssue", surface |-> "lib",
            projectPath |-> projectFullPath, token |-> token, input |-> input]
  /\ Dispatch(RestRequest("POST", IssuesUrl(projectFullPath), CreateIssueBody(input)))
  /\ pc' = "await"
  /\ UNCHANGED <<received, fetchLocals, result, error>>

\* a mutator that adds the labels to those the issue has
LibUpdateIssueLabels_Additive(projectFullPath, token, input) ==
  /\ pc = "idle"
  /\ op' = [name |-> "updateIssueLabels", surface |-> "lib",
            projectPath |-> projectFullPath, token |-> token, input |-> input]
  /\ Dispatch(RestRequest("PUT", IssueUrl(projectFullPath, input.issueIid),
                          [add_labels |-> Some(Join(input.labels, ","))]))
  /\ pc' = "await"
  /\ UNCHANGED <<received, fetchLocals, result, error>>

\* updateIssueLabels, up to await fetch(url, ...)
LibUpdateIssueLabels(projectFullPath, token, input) ==
  /\ pc = "idle"
  /\ op' = [name |-> "updateIssueLabels", surface |-> "lib",
            projectPath |-> projectFullPath, token |-> token, input |-> input]
  /\ Dispatch(RestRequest("PUT", IssueUrl(projectFullPath, input.issueIid),
                          [labels |-> Some(Join(input.labels, ","))]))
  /\ pc' = "await"
  /\ UNCHANGED <<received, fetchLocals, result, error>>

\* updateIssue: const body = {}; if (input.title) body.title = ...
UpdateIssueBody(input) ==
  [title |-> IF TruthyString(input.title) THEN input.title ELSE None,
   description |-> input.description,
   labels |-> JoinLabels(input.labels),
   state_event |-> IF TruthyString(input.stateEvent) THEN input.stateEvent ELSE None,
   health_status |-> IF TruthyString(input.healthStatus) THEN input.healthStatus ELSE None,
   time_estimate |-> input.timeEstimateSeconds]

\* updateIssue, up to await fetch(url, ...)
LibUpdateIssue(projectFullPath, token, input) ==
  /\ pc = "idle"
  /\ op' = [name |-> "updateIssue", surface |-> "lib",
            projectPath |-> projectFullPath, token |-> token, input |-> input]
  /\ IF input.issueIid = ""
     THEN /\ Throw(<<"Missing issueIid.">>)
          /\ UNCHANGED <<sent, inflight>>
     ELSE IF BodyKeys(UpdateIssueBody(input)) = {}
     THEN /\ Throw(<<"No fields provided to update.">>)
          /\ UNCHANGED <<sent, inflight>>
     ELSE /\ Dispatch(RestRequest("PUT", IssueUrl(projectFullPath, input.issueIid),
                                  UpdateIssueBody(input)))
          /\ pc' = "await"
          /\ UNCHANGED <<result, error>>
  /\ UNCHANGED <<received, fetchLocals>>

\* "Failed to create issue" / "Failed to update labels" / "Failed to update issue"
LibFailureText(name) ==
  CASE name = "createIssue" -> "Failed to create issue ("
    [] name = "updateIssueLabels" -> "Failed to update labels ("
    [] name = "updateIssue" -> "Failed to update issue ("

\* the rest of a library mutator, after await fetch(url, ...)
LibMutatorReceive(resp) ==
  /\ pc = "await"
  /\ op.surface = "lib"
  /\ op.name \in {"createIssue", "updateIssueLabels", "updateIssue"}
  /\ Arrive(resp)
  /\ IF ~resp.ok
     THEN Throw(<<LibFailureText(op.name), resp.status, resp.statusText, ").">>)
     ELSE IF op.name = "updateIssueLabels"
     THEN Return(MapRestLabelsOrEmpty(resp.json))
     ELSE Return(MapRestIssue(resp.json))
  /\ UNCHANGED <<op, sent, fetchLocals>>

----------------------------------------------------------------------------
(* JavaScript numbers, as far as the estimate needs them: a finite number  *)
(* of hours is held in tenths of a second (36000 units to the hour), so    *)
(* that hours * 3600 is units / 10                                          *)

Finite(units) == [kind |-> "finite", units |-> units]
NaN == [kind |-> "nan", units |-> 0]

\* Number(value) of the texts an --estimate flag is given in the model
NumberOf(text) ==
  CASE text = "1.5" -> Finite(54000)
    [] text = "0" -> Finite(0)
    [] text = "0.00025" -> Finite(9)
    [] text = "-1" -> Finite(0 - 36000)
    [] OTHER -> NaN

\* Number.isFinite(n)
IsFinite(n) == n.kind = "finite"

\* Math.round(hours * 3600): the nearest integer, halves upwards
RoundSeconds(n) == (n.units + 5) \div 10

EstimateTexts == {"1.5", "0", "0.00025", "-1", "abc"}

----------------------------------------------------------------------------
(* The update command of scripts/issues-cli.js *)

\* String(value).toLowerCase() of the texts a --state flag is given in the model
LowerCase(text) ==
  CASE text = "CLOSE" -> "close"
    [] text = "Reopen" -> "reopen"
    [] text = "OPENED" -> "opened"
    [] OTHER -> text

\* value.trim() of the label segments of the model
Trim(text) ==
  CASE text = " ui" -> "ui"
    [] text = " " -> ""
    [] OTHER -> text

RECURSIVE TrimAndDropEmpty(_)
\* .map((value) => value.trim()).filter(Boolean)
TrimAndDropEmpty(segments) ==
  IF segments = <<>> THEN <<>>
  ELSE IF Trim(Head(segments)) = "" THEN TrimAndDropEmpty(Tail(segments))
  ELSE <<Trim(Head(segments))>> \o TrimAndDropEmpty(Tail(segments))

\* parseLabels(input), the flag given as the segments input.split(",") yields
parseLabels(input) ==
  IF input = None THEN None ELSE Some(TrimAndDropEmpty(input[1]))

\* parseHoursToSeconds(value) throws
parseHoursThrows(value) ==
  /\ value # None
  /\ (~IsFinite(NumberOf(value[1])) \/ NumberOf(value[1]).units < 0)

\* parseHoursToSeconds(value), where it does not throw
parseHoursToSeconds(value) ==
  IF value = None THEN None ELSE Some(Some(RoundSeconds(NumberOf(value[1]))))

\* normalizeStateEvent(value) throws
normalizeStateEventThrows(value) ==
  /\ TruthyString(value)
  /\ LowerCase(value[1]) \notin
       {"close", "closed", "open", "opened", "reopen", "reopened"}

\* normalizeStateEvent(value), where it does not throw
normalizeStateEvent(value) ==
  IF ~TruthyString(value) THEN None
  ELSE IF LowerCase(value[1]) \in {"close", "closed"} THEN Some("close")
  ELSE Some("reopen")

\* the JSON object of a --data-file: the six fields the command reads
EmptyFile ==
  [title |-> None, description |-> None, labels |-> None,
   stateEvent |-> None, healthStatus |-> None, timeEstimateSeconds |-> None]

DataFiles ==
  {EmptyFile,
   [EmptyFile EXCEPT !.stateEvent = Some("bogus")],
   [EmptyFile EXCEPT !.stateEvent = Some("close"), !.title = Some("F")],
   [EmptyFile EXCEPT !.healthStatus = Some("bogus")],
   [EmptyFile EXCEPT !.timeEstimateSeconds = Some(Some(60)),
                     !.labels = Some(<<"file">>)]}

\* the flags of the update command, as parseArgs returns them
UpdateArgs ==
  [iid : {None, Some("7")},
   title : {None, Some("T")},
   description : {None, Some("")},
   labels : {None, Some(<<"bug", " ui", "">>)},
   health : {None, Some("on_track"), Some("bogus")},
   estimate : {None} \cup {Some(e) : e \in EstimateTexts},
   state : {None} \cup
           {Some(e) : e \in {"", "close", "reopen", "closed", "CLOSE", "bogus"}},
   dataFile : {None} \cup {Some(f) : f \in DataFiles}]

\* mergeUpdatePayload(args), where neither parser throws: the flags override
\* the file
mergeUpdatePayload(args) ==
  LET filePayload == Coalesce(args.dataFile, EmptyFile) IN
  [title |-> IF args.title # None THEN args.title ELSE filePayload.title,
   description |-> IF args.description # None THEN args.description
                   ELSE filePayload.description,
   labels |-> IF args.labels # None THEN parseLabels(args.labels)
              ELSE filePayload.labels,
   healthStatus |-> IF args.health # None THEN args.health
                    ELSE filePayload.healthStatus,
   timeEstimateSeconds |-> IF args.estimate # None
                           THEN parseHoursToSeconds(args.estimate)
                           ELSE filePayload.timeEstimateSeconds,
   stateEvent |-> IF args.state # None THEN normalizeStateEvent(args.state)
                  ELSE filePayload.stateEvent]

allowedHealth == {"on_track", "needs_attention", "at_risk"}

\* updateIssue: const body = {}; if (payload.title !== undefined) ...
CliUpdateBody(payload) ==
  [title |-> payload.title,
   description |-> payload.description,
   labels |-> JoinLabels(payload.labels),
   state_event |-> payload.stateEvent,
   health_status |-> payload.healthStatus,
   time_estimate |-> payload.timeEstimateSeconds]

\* main and updateIssue, up to await fetch(url, ...)
CliUpdateCall(projectPath, token, args) ==
  /\ pc = "idle"
  /\ op' = [name |-> "updateIssue", surface |-> "cli",
            projectPath |-> projectPath, token |-> token, args |-> args]
  /\ IF token = ""
     THEN /\ Throw(<<"Missing token. Set GITLAB_TOKEN or pass --token.">>)
          /\ UNCHANGED <<sent, inflight>>
     ELSE IF projectPath = ""
     THEN /\ Throw(<<"Missing project path. Set GITLAB_PROJECT_PATH or pass --project.">>)
          /\ UNCHANGED <<sent, inflight>>
     ELSE IF ~TruthyString(args.iid)
     THEN /\ Throw(<<"--iid (issue internal ID) is required for update.">>)
          /\ UNCHANGED <<sent, inflight>>
     ELSE IF parseHoursThrows(args.estimate)
     THEN /\ Throw(<<"Estimate must be a non-negative number.">>)
          /\ UNCHANGED <<sent, inflight>>
     ELSE IF args.state # None /\ normalizeStateEventThrows(args.state)
     THEN /\ Throw(<<"state must be one of close|reopen.">>)
          /\ UNCHANGED <<sent, inflight>>
     ELSE LET payload == mergeUpdatePayload(args) IN
          IF payload.healthStatus # None /\ payload.healthStatus[1] \notin allowedHealth
          THEN /\ Throw(<<"health must be one of on_track|needs_attention|at_risk.">>)
               /\ UNCHANGED <<sent, inflight>>
          ELSE IF BodyKeys(payload) = {}
          THEN /\ Throw(<<"No fields provided to update. Add at least one flag.">>)
               /\ UNCHANGED <<sent, inflight>>
          ELSE /\ Dispatch(RestRequest("PUT", IssueUrl(projectPath, args.iid[1]),
                                       CliUpdateBody(payload)))
               /\ pc' = "await"
               /\ UNCHANGED <<result, error>>
  /\ UNCHANGED <<received, fetchLocals>>

\* updateIssue after await fetch(url, ...): the error with the body text, or
\* the raw JSON of the response
CliUpdateReceive(resp) ==
  /\ pc = "await"
  /\ op.surface = "cli"
  /\ op.name = "updateIssue"
  /\ Arrive(resp)
  /\ IF ~resp.ok
     THEN Throw(<<"GitLab update failed", resp.status, resp.statusText, ":", resp.text>>)
     ELSE Return(resp.json)
  /\ UNCHANGED <<op, sent, fetchLocals>>

----------------------------------------------------------------------------
(* The create-issue script *)

\* the flags of the create command, as its parseArgs returns them; --labels
\* is passed on as the text it was given in
CreateArgs ==
  [title : {None, Some("T")},
   description : {None, Some("D")},
   labels : {None, Some(<<"bug", ",", "ui">>)},
   health : {None, Some("on_track"), Some("needs_attention"), Some("bogus")},
   estimate : {None} \cup {Some(e) : e \in EstimateTexts}]

\* const estimateHours = args.estimate ? Number(args.estimate) : null;
\* if (Number.isFinite(estimateHours) && estimateHours > 0) payload.time_estimate = ...
CliCreateEstimate(estimate) ==
  IF TruthyString(estimate) /\ IsFinite(NumberOf(estimate[1]))
     /\ NumberOf(estimate[1]).units > 0
  THEN Some(Some(RoundSeconds(NumberOf(estimate[1]))))
  ELSE None

\* if (health === "on_track" || health === "needs_attention" || health === "at_risk")
\*   payload.health_status = health
CliCreateHealth(health) ==
  IF health # None /\ health[1] \in {"on_track", "needs_attention", "at_risk"}
  THEN health ELSE None

\* const payload = { title, description, labels }; ...
CliCreateBody(args) ==
  [title |-> args.title,
   description |-> Some(Coalesce(args.description, "")),
   labels |-> Some(Coalesce(args.labels, <<>>)),
   health_status |-> CliCreateHealth(args.health),
   time_estimate |-> CliCreateEstimate(args.estimate)]

\* main of the create-issue script, up to await fetch(url, ...)
CliCreateCall(projectPath, token, args) ==
  /\ pc = "idle"
  /\ op' = [name |-> "createIssue", surface |-> "cli",
            projectPath |-> projectPath, token |-> token, args |-> args]
  /\ IF token = ""
     THEN /\ Throw(<<"Missing token. Set GITLAB_TOKEN or pass --token.">>)
          /\ UNCHANGED <<sent, inflight>>
     ELSE IF projectPath = ""
     THEN /\ Throw(<<"Missing project path. Set GITLAB_PROJECT_PATH or pass --project.">>)
          /\ UNCHANGED <<sent, inflight>>
     ELSE IF ~TruthyString(args.title)
     THEN /\ Throw(<<"Missing required --title.">>)
          /\ UNCHANGED <<sent, inflight>>
     ELSE /\ Dispatch(RestRequest("POST", IssuesUrl(projectPath), CliCreateBody(args)))
          /\ pc' = "await"
          /\ UNCHANGED <<result, error>>
  /\ UNCHANGED <<received, fetchLocals>>

\* main of the create-issue script after await fetch(url, ...): the error with the
\* body text, or the printed summary
CliCreateReceive(resp) ==
  /\ pc = "await"
  /\ op.surface = "cli"
  /\ op.name = "createIssue"
  /\ Arrive(resp)
  /\ IF ~resp.ok
     THEN Throw(<<"GitLab responded", resp.status, resp.statusText, ":", resp.text>>)
     ELSE Return([iid |-> resp.json.iid, title |-> resp.json.title,
                  state |-> resp.json.state])
  /\ UNCHANGED <<op, sent, fetchLocals>>

----------------------------------------------------------------------------
(* IssueManagerDashboard: the handlers of the dashboard.  An await of      *)
(* callApi splits a handler into the part that issues the request and the  *)
(* part that runs when the request settles.  callApi posts to the route,   *)
(* which calls the library: a list request settles with a                  *)
(* ProjectIssuesResult, an updateIssue request with the REST issue mapped  *)
(* by updateIssue, an updateLabels request with { labels }.                *)

\* the user issues at most MaxCalls requests
MaxCalls == 3

\* the issue lists a list request may settle with, as provider numbers
HeldLists == {<<>>, <<1>>, <<2, 1>>}

\* the values fetchProjectIssues may return to the route
ListResults ==
  {ProjectIssuesResult(Some(ProjectRef(SnapshotA)), "g/alpha",
                       MapNodes(NodesOf(s)), Coalesce(SnapshotA.labels, <<>>))
     : s \in HeldLists}

\* the number of the provider issue whose iid is given
IssueNumber(iid) == CHOOSE n \in 1..MaxId : StringOf(n) = iid

\* the JSON the provider answers to the PUT of an update with
RestIssueAfterUpdate(iid, data) ==
  [id |-> IssueNumber(iid), iid |-> IssueNumber(iid), title |-> data.title,
   description |-> Some(data.description), state |-> "opened",
   author |-> None, assignees |-> None, labels |-> Some(data.labels),
   health_status |-> None, time_stats |-> None]

\* what callApi may settle with: the JSON of the route, or a thrown Error
ApiOutcomes(call) ==
  {[ok |-> FALSE, value |-> None, message |-> "Project not found or access denied."]}
  \cup
  CASE call.handler \in {"load", "refresh", "createRefresh"} ->
         {[ok |-> TRUE, value |-> Some(r), message |-> ""] : r \in ListResults}
    [] call.handler = "create" ->
         {[ok |-> TRUE, value |-> None, message |-> ""]}
    [] call.handler = "edit" ->
         {[ok |-> TRUE,
           value |-> Some(MapRestIssue(
                       RestIssueAfterUpdate(call.issue[1].iid, call.data[1]))),
           message |-> ""]}
    [] call.handler = "labels" ->
         {[ok |-> TRUE, value |-> Some([labels |-> MapRestLabels(call.data[1])]),
           message |-> ""]}

\* await callApi(...): the request is issued
CallApi(handler, issue, data, held) ==
  /\ issued' = issued + 1
  /\ calls' = calls \cup {[seq |-> issued + 1, handler |-> handler,
                           issue |-> issue, data |-> data, held |-> held]}

\* the number of the request whose response the held result was last set or
\* spliced from by a list request or an edit, 0 while there is none
HeldFrom == IF lastOutcome = None THEN 0 ELSE lastOutcome[1].heldFrom

\* the record of a request that settles now
Settled(call, outcome) ==
  Some([call |-> call, ok |-> outcome.ok, value |-> outcome.value,
        message |-> outcome.message,
        heldFrom |-> IF outcome.ok /\ call.handler \in {"load", "refresh",
                                                        "createRefresh", "edit"}
                     THEN call.seq ELSE HeldFrom])

\* the awaited callApi settles
Settle(call, outcome) ==
  /\ calls' = calls \ {call}
  /\ lastOutcome' = Settled(call, outcome)

RECURSIVE LabelTitles(_)
\* issue.labels.map((label) => label.title)
LabelTitles(lbls) ==
  IF lbls = <<>> THEN <<>> ELSE <<Head(lbls).title>> \o LabelTitles(Tail(lbls))

RECURSIVE MapIssues(_, _, _)
\* prev.issues.map((issue) => issue.id === id ? replacement(issue) : issue),
\* where the replacement is either the updated issue or the issue with new labels
MapIssues(list, id, change) ==
  IF list = <<>> THEN <<>>
  ELSE <<IF Head(list).id = id
         THEN (IF change.whole THEN change.issue
               ELSE [Head(list) EXCEPT !.labels = change.labels])
         ELSE Head(list)>> \o MapIssues(Tail(list), id, change)

\* setProjectData((prev) => { if (!prev) return prev;
\*   return { ...prev, issues: prev.issues.map((issue) =>
\*     issue.id === updated.id ? updated : issue) } })
SpliceUpdated(prev, updated) ==
  IF prev = None THEN prev
  ELSE Some([prev[1] EXCEPT
               !.issues = MapIssues(prev[1].issues, updated.id,
                                    [whole |-> TRUE, issue |-> updated])])

\* a dashboard that writes the new labels into every held issue
SpliceLabels_EveryIssue(prev, issue, lbls) ==
  IF prev = None THEN prev
  ELSE Some([prev[1] EXCEPT
               !.issues = [i \in 1..Len(prev[1].issues) |->
                             [prev[1].issues[i] EXCEPT !.labels = lbls]]])

\* setProjectData((prev) => { if (!prev) return prev;
\*   const nextIssues = prev.issues.map((candidate) =>
\*     candidate.id === issue.id ? { ...candidate, labels: result.labels } : candidate);
\*   return { ...prev, issues: nextIssues } })
SpliceLabels(prev, issue, lbls) ==
  IF prev = None THEN prev
  ELSE Some([prev[1] EXCEPT
               !.issues = MapIssues(prev[1].issues, issue.id,
                                    [whole |-> FALSE, labels |-> lbls])])

\* the issues the dashboard lists
HeldIssues == IF projectData = None THEN {}
              ELSE {projectData[1].issues[i] : i \in 1..Len(projectData[1].issues)}

\* handleLoadIssues, up to await callApi
handleLoadIssues ==
  /\ ~isLoading
  /\ issued < MaxCalls
  /\ dashError' = None
  /\ isLoading' = TRUE
  /\ CallApi("load", None, None, FALSE)
  /\ UNCHANGED <<projectData, createError, editingIssue, editForm, editError,
                 isCreating, isEditing, isUpdating, lastOutcome>>

\* handleLoadIssues, after await callApi
LoadSettled(call, outcome) ==
  /\ call.handler = "load"
  /\ Settle(call, outcome)
  /\ IF outcome.ok
     THEN projectData' = outcome.value /\ UNCHANGED dashError
     ELSE dashError' = Some(outcome.message) /\ UNCHANGED projectData
  /\ isLoading' = FALSE
  /\ UNCHANGED <<createError, editingIssue, editForm, editError, isCreating,
                 isEditing, isUpdating, issued>>

\* handleRefreshIssues from the Refresh button, up to await callApi
handleRefreshIssues ==
  /\ projectData # None
  /\ ~isLoading
  /\ issued < MaxCalls
  /\ CallApi("refresh", None, None, TRUE)
  /\ UNCHANGED <<projectData, dashError, createError, editingIssue, editForm,
                 editError, isLoading, isCreating, isEditing, isUpdating,
                 lastOutcome>>

\* handleRefreshIssues, after await callApi
RefreshSettled(call, outcome) ==
  /\ call.handler = "refresh"
  /\ Settle(call, outcome)
  /\ IF outcome.ok
     THEN projectData' = outcome.value /\ UNCHANGED dashError
     ELSE dashError' = Some(outcome.message) /\ UNCHANGED projectData
  /\ UNCHANGED <<createError, editingIssue, editForm, editError, isLoading,
                 isCreating, isEditing, isUpdating, issued>>

\* handleCreateIssue in form mode, up to await callApi; the handler keeps the
\* projectData of the render it was created in
handleCreateIssue(title) ==
  /\ ~isCreating
  /\ issued < MaxCalls
  /\ IF Trim(title) = ""
     THEN /\ createError' = Some("Title is required.")
          /\ UNCHANGED <<dashError, isCreating, calls, issued>>
     ELSE /\ createError' = None
          /\ isCreating' = TRUE
          /\ dashError' = None
          /\ CallApi("create", None, None, projectData # None)
  /\ UNCHANGED <<projectData, editingIssue, editForm, editError, isLoading,
                 isEditing, isUpdating, lastOutcome>>

\* handleCreateIssue, after await callApi: await handleRefreshIssues()
CreateSettled(call, outcome) ==
  /\ call.handler = "create"
  /\ lastOutcome' = Settled(call, outcome)
  /\ IF ~outcome.ok
     THEN /\ dashError' = Some(outcome.message)
          /\ isCreating' = FALSE
          /\ calls' = calls \ {call}
          /\ UNCHANGED issued
     ELSE IF ~call.held
     THEN /\ isCreating' = FALSE
          /\ calls' = calls \ {call}
          /\ UNCHANGED <<dashError, issued>>
     ELSE /\ issued' = issued + 1
          /\ calls' = (calls \ {call}) \cup
                        {[seq |-> issued + 1, handler |-> "createRefresh",
                          issue |-> None, data |-> None, held |-> TRUE]}
          /\ UNCHANGED <<dashError, isCreating>>
  /\ UNCHANGED <<projectData, createError, editingIssue, editForm, editError,
                 isLoading, isEditing, isUpdating>>

\* handleRefreshIssues as called by handleCreateIssue, after await callApi,
\* and the finally of handleCreateIssue
CreateRefreshSettled(call, outcome) ==
  /\ call.handler = "createRefresh"
  /\ Settle(call, outcome)
  /\ IF outcome.ok
     THEN projectData' = outcome.value /\ UNCHANGED dashError
     ELSE dashError' = Some(outcome.message) /\ UNCHANGED projectData
  /\ isCreating' = FALSE
  /\ UNCHANGED <<createError, editingIssue, editForm, editError, isLoading,
                 isEditing, isUpdating, issued>>

\* openEditIssue(issue), from the Edit button of a listed issue
openEditIssue(issue) ==
  /\ editingIssue = None
  /\ editingIssue' = Some(issue)
  /\ editForm' = [title |-> issue.title,
                  description |-> Coalesce(issue.description, ""),
                  labels |-> LabelTitles(issue.labels)]
  /\ editError' = None
  /\ UNCHANGED <<projectData, dashError, createError, isLoading, isCreating,
                 isEditing, isUpdating, calls, issued, lastOutcome>>

\* setEditForm((prev) => ({ ...prev, title: event.target.value }))
EditTitle(title) ==
  /\ editingIssue # None
  /\ editForm' = [editForm EXCEPT !.title = title]
  /\ UNCHANGED <<projectData, dashError, createError, editingIssue, editError,
                 isLoading, isCreating, isEditing, isUpdating, calls, issued,
                 lastOutcome>>

\* closeEditIssue, from the close button of the modal
closeEditIssue ==
  /\ editingIssue # None
  /\ editingIssue' = None
  /\ editError' = None
  /\ editForm' = DEFAULT_CREATE
  /\ isEditing' = FALSE
  /\ UNCHANGED <<projectData, dashError, createError, isLoading, isCreating,
                 isUpdating, calls, issued, lastOutcome>>

\* handleSubmitEdit in form mode, up to await callApi
handleSubmitEdit ==
  /\ editingIssue # None
  /\ ~isEditing
  /\ issued < MaxCalls
  /\ IF Trim(editForm.title) = ""
     THEN /\ editError' = Some("Title is required.")
          /\ UNCHANGED <<isEditing, calls, issued>>
     ELSE /\ editError' = None
          /\ isEditing' = TRUE
          /\ CallApi("edit", editingIssue,
                     Some([title |-> Trim(editForm.title),
                           description |-> editForm.description,
                           labels |-> editForm.labels]), FALSE)
  /\ UNCHANGED <<projectData, dashError, createError, editingIssue, editForm,
                 isLoading, isCreating, isUpdating, lastOutcome>>

\* handleSubmitEdit, after await callApi
EditSettled(call, outcome) ==
  /\ call.handler = "edit"
  /\ Settle(call, outcome)
  /\ IF outcome.ok
     THEN /\ projectData' = SpliceUpdated(projectData, outcome.value[1])
          /\ editingIssue' = None
          /\ editError' = None
          /\ editForm' = DEFAULT_CREATE
     ELSE /\ editError' = Some(outcome.message)
          /\ UNCHANGED <<projectData, editingIssue, editForm>>
  /\ isEditing' = FALSE
  /\ UNCHANGED <<dashError, createError, isLoading, isCreating, isUpdating,
                 issued>>

\* the label lists the label editor may save
LabelDrafts == {<<>>, <<"ui">>}

\* handleUpdateLabels(issue, labels), up to await callApi
handleUpdateLabels(issue, lbls) ==
  /\ isUpdating # Some(issue.id)
  /\ issued < MaxCalls
  /\ isUpdating' = Some(issue.id)
  /\ dashError' = None
  /\ CallApi("labels", Some(issue), Some(lbls), FALSE)
  /\ UNCHANGED <<projectData, createError, editingIssue, editForm, editError,
                 isLoading, isCreating, isEditing, lastOutcome>>

\* handleUpdateLabels, after await callApi
LabelsSettled(call, outcome) ==
  /\ call.handler = "labels"
  /\ Settle(call, outcome)
  /\ IF outcome.ok
     THEN /\ projectData' = SpliceLabels(projectData, call.issue[1],
                                         outcome.value[1].labels)
          /\ UNCHANGED dashError
     ELSE dashError' = Some(outcome.message) /\ UNCHANGED projectData
  /\ isUpdating' = None
  /\ UNCHANGED <<createError, editingIssue, editForm, editError, isLoading,
                 isCreating, isEditing, issued>>

DashNext ==
  \/ handleLoadIssues /\ UNCHANGED <<callVars, applied>>
  \/ /\ \E call \in calls : \E outcome \in ApiOutcomes(call) :
          LoadSettled(call, outcome)
     /\ UNCHANGED <<callVars, applied>>
  \/ handleRefreshIssues /\ UNCHANGED <<callVars, applied>>
  \/ /\ \E call \in calls : \E outcome \in ApiOutcomes(call) :
          RefreshSettled(call, outcome)
     /\ UNCHANGED <<callVars, applied>>
  \/ /\ \E title \in {"", " ", "T"} : handleCreateIssue(title)
     /\ UNCHANGED <<callVars, applied>>
  \/ /\ \E call \in calls : \E outcome \in ApiOutcomes(call) :
          CreateSettled(call, outcome)
     /\ UNCHANGED <<callVars, applied>>
  \/ /\ \E call \in calls : \E outcome \in ApiOutcomes(call) :
          CreateRefreshSettled(call, outcome)
     /\ UNCHANGED <<callVars, applied>>
  \/ /\ \E issue \in HeldIssues : openEditIssue(issue)
     /\ UNCHANGED <<callVars, applied>>
  \/ /\ \E title \in {"", "T2"} : EditTitle(title)
     /\ UNCHANGED <<callVars, applied>>
  \/ closeEditIssue /\ UNCHANGED <<callVars, applied>>
  \/ handleSubmitEdit /\ UNCHANGED <<callVars, applied>>
  \/ /\ \E call \in calls : \E outcome \in ApiOutcomes(call) :
          EditSettled(call, outcome)
     /\ UNCHANGED <<callVars, applied>>
  \/ /\ \E issue \in HeldIssues, lbls \in LabelDrafts :
          handleUpdateLabels(issue, lbls)
     /\ UNCHANGED <<callVars, applied>>
  \/ /\ \E call \in calls : \E outcome \in ApiOutcomes(call) :
          LabelsSettled(call, outcome)
     /\ UNCHANGED <<callVars, applied>>

DashSpec == Init /\ [][DashNext]_vars

----------------------------------------------------------------------------
(* resolveRestEndpoint.  A URL is the sequence of its parts: the origin and *)
(* the path segments, each with its leading slash; a bare "/" is a trailing *)
(* slash.                                                                   *)

GRAPHQL_SUFFIX == "/api/graphql"
REST_SUFFIX == "/api/v4"

\* the REST default, as parts
DefaultRestUrl == <<"https://gitlab.com", REST_SUFFIX>>

\* the values of --api-url / GITLAB_API_URL: absent, empty, or a URL
GraphqlUrls ==
  {None, Some(<<>>),
   Some(<<"https://gitlab.com", GRAPHQL_SUFFIX>>),
   Some(<<"https://gitlab.example.com", GRAPHQL_SUFFIX>>),
   Some(<<"https://gitlab.example.com", "/gitlab", GRAPHQL_SUFFIX>>),
   Some(<<"https://gitlab.example.com", GRAPHQL_SUFFIX, "/">>),
   Some(<<"https://gitlab.example.com", "/graphql">>),
   Some(<<"https://gitlab.example.com", GRAPHQL_SUFFIX, "/proxy", GRAPHQL_SUFFIX>>)}

\* the values of --rest-url / GITLAB_REST_URL
ExplicitRestUrls ==
  {None, Some(<<>>),
   Some(<<"https://custom", "/rest">>),
   Some(<<"https://custom", "/rest", "/">>),
   Some(<<"https://custom", "/rest", "/", "/">>)}

\* if (url): given and not the empty string
TruthyUrl(url) == url # None /\ url[1] # <<>>

\* url.replace(/\/$/, "")
StripTrailingSlash(url) ==
  IF url # <<>> /\ url[Len(url)] = "/" THEN SubSeq(url, 1, Len(url) - 1) ELSE url

\* url.endsWith("/api/graphql")
EndsWithGraphql(url) == url # <<>> /\ url[Len(url)] = GRAPHQL_SUFFIX

RECURSIVE ReplaceFirst(_, _, _)
\* url.replace(pattern, replacement) with a string pattern: the first
\* occurrence only
ReplaceFirst(url, pattern, replacement) ==
  IF url = <<>> THEN <<>>
  ELSE IF Head(url) = pattern THEN <<replacement>> \o Tail(url)
  ELSE <<Head(url)>> \o ReplaceFirst(Tail(url), pattern, replacement)

\* resolveRestEndpoint(graphqlUrl, explicitRestUrl) of scripts/issues-cli.js
resolveRestEndpoint(graphqlUrl, explicitRestUrl) ==
  IF TruthyUrl(explicitRestUrl) THEN StripTrailingSlash(explicitRestUrl[1])
  ELSE IF ~TruthyUrl(graphqlUrl) THEN DefaultRestUrl
  ELSE IF EndsWithGraphql(graphqlUrl[1])
  THEN ReplaceFirst(graphqlUrl[1], GRAPHQL_SUFFIX, REST_SUFFIX)
  ELSE DefaultRestUrl

\* resolveRestEndpoint(graphqlEndpoint) of app/lib/gitlab.ts
LibResolveRestEndpoint(graphqlEndpoint) ==
  IF ~TruthyUrl(graphqlEndpoint) THEN DefaultRestUrl
  ELSE IF EndsWithGraphql(graphqlEndpoint[1])
  THEN ReplaceFirst(graphqlEndpoint[1], GRAPHQL_SUFFIX, REST_SUFFIX)
  ELSE DefaultRestUrl

\* main of scripts/issues-cli.js resolves the REST endpoint; a library
\* mutator resolves it from credentials.apiUrl
ResolveRestEndpoint(graphqlUrl, explicitRestUrl) ==
  /\ applied' = Some([fn |-> "resolveRestEndpoint",
                      graphqlUrl |-> graphqlUrl,
                      explicitRestUrl |-> explicitRestUrl,
                      cli |-> resolveRestEndpoint(graphqlUrl, explicitRestUrl),
                      lib |-> LibResolveRestEndpoint(graphqlUrl)])
  /\ UNCHANGED <<callVars, dashVars>>

----------------------------------------------------------------------------
(* The filters: applyFilters of scripts/issues-cli.js and filteredIssues of *)
(* the dashboard.  A text is the sequence of its characters.                *)

\* the longest issue list the filters are applied to
MaxIssues == 3

\* issue.state as characters
StateChars(state) ==
  CASE state = "opened" -> <<"o", "p", "e", "n", "e", "d">>
    [] state = "closed" -> <<"c", "l", "o", "s", "e", "d">>

\* the issues the filters are applied to; updatedAt and createdAt are the
\* instants new Date(value).getTime() gives
FilterIssueA ==
  [id |-> "a", title |-> <<"F", "i", "x">>, description |-> None, state |-> "opened",
   labels |-> <<[title |-> <<"F", "r", "o", "n", "t", "e", "n", "d">>]>>, updatedAt |-> 3, createdAt |-> 1]

FilterIssueB ==
  [id |-> "b", title |-> <<"a", "p", "i">>, description |-> Some(<<"x", " ", "y">>), state |-> "closed",
   labels |-> <<>>, updatedAt |-> 1, createdAt |-> 2]

FilterIssueC ==
  [id |-> "c", title |-> <<"B", "u", "g">>, description |-> None, state |-> "opened",
   labels |-> <<[title |-> <<"u", "i">>], [title |-> <<"a", "p", "i">>]>>,
   updatedAt |-> 1, createdAt |-> 3]

FilterIssues == {FilterIssueA, FilterIssueB, FilterIssueC}

RECURSIVE SeqsUpTo(_, _)
\* the sequences over S of length <= n
SeqsUpTo(S, n) ==
  IF n = 0 THEN {<<>>}
  ELSE {<<>>} \cup UNION {{<<x>> \o t : t \in SeqsUpTo(S, n - 1)} : x \in S}

IssueLists == SeqsUpTo(FilterIssues, MaxIssues)

\* the filter texts: absent, empty, blank, and needles with and without a match
FilterTexts ==
  {None, Some(<<>>), Some(<<" ", " ">>), Some(<<"f", "r", "o", "n", "t", "e", "n", "d">>), Some(<<" ", "F", "i", "x", " ">>),
   Some(<<"x", " ", "y">>), Some(<<"z", "z", "z">>), Some(<<"o", "p", "e", "n">>), Some(<<"d", " ", "u">>)}

StateTokens == {None, Some("all"), Some("opened"), Some("closed"), Some("open"),
                Some("OPENED"), Some("bogus")}

SortModes == {"updated_desc", "updated_asc", "created_desc", "created_asc",
              "title_asc"}

SortTokens == {None, Some("bogus")} \cup {Some(m) : m \in SortModes}

\* c.toLowerCase() of one character
LowerChar(c) ==
  CASE c = "F" -> "f"
    [] c = "B" -> "b"
    [] OTHER -> c

RECURSIVE toLowerCase(_)
toLowerCase(text) ==
  IF text = <<>> THEN <<>> ELSE <<LowerChar(Head(text))>> \o toLowerCase(Tail(text))

RECURSIVE trimStart(_)
trimStart(text) ==
  IF text # <<>> /\ Head(text) = " " THEN trimStart(Tail(text)) ELSE text

RECURSIVE trimEnd(_)
trimEnd(text) ==
  IF text # <<>> /\ text[Len(text)] = " "
  THEN trimEnd(SubSeq(text, 1, Len(text) - 1)) ELSE text

\* text.trim()
trim(text) == trimEnd(trimStart(text))

RECURSIVE joinTexts(_)
\* texts.join(" ")
joinTexts(texts) ==
  IF texts = <<>> THEN <<>>
  ELSE IF Len(texts) = 1 THEN Head(texts)
  ELSE Head(texts) \o <<" ">> \o joinTexts(Tail(texts))

\* haystack.includes(needle)
includes(haystack, needle) ==
  \E i \in 0..(Len(haystack) - Len(needle)) :
    SubSeq(haystack, i + 1, i + Len(needle)) = needle

RECURSIVE labelTexts(_)
\* issue.labels.map((label) => label.title)
labelTexts(lbls) ==
  IF lbls = <<>> THEN <<>> ELSE <<Head(lbls).title>> \o labelTexts(Tail(lbls))

\* a filter that compares the haystack as it is written
Haystack_CaseSensitive(issue) ==
  joinTexts(<<issue.title, Coalesce(issue.description, <<>>),
              StateChars(issue.state)>> \o labelTexts(issue.labels))

\* [issue.title, issue.description ?? "", issue.state, ...labels].join(" ")
\*   .toLowerCase()
Haystack(issue) ==
  toLowerCase(joinTexts(<<issue.title, Coalesce(issue.description, <<>>),
                          StateChars(issue.state)>> \o labelTexts(issue.labels)))

\* const needle = (filterText ?? "").trim().toLowerCase()
Needle(filterText) == toLowerCase(trim(Coalesce(filterText, <<>>)))

\* the callback of issues.filter(...)
Keeps(issue, stateFilter, needle) ==
  IF stateFilter # "all" /\ issue.state # stateFilter THEN FALSE
  ELSE IF needle = <<>> THEN TRUE
  ELSE includes(Haystack(issue), needle)

RECURSIVE FilterIssuesBy(_, _, _)
\* issues.filter(...)
FilterIssuesBy(list, stateFilter, needle) ==
  IF list = <<>> THEN <<>>
  ELSE (IF Keeps(Head(list), stateFilter, needle) THEN <<Head(list)>> ELSE <<>>)
       \o FilterIssuesBy(Tail(list), stateFilter, needle)

\* a normalizeState that reads every unknown token as opened
normalizeState_OpenedByDefault(state) ==
  IF ~TruthyString(state) THEN "all"
  ELSE IF LowerCase(state[1]) \in {"opened", "closed"} THEN LowerCase(state[1])
  ELSE "opened"

\* normalizeState(state)
normalizeState(state) ==
  IF ~TruthyString(state) THEN "all"
  ELSE IF LowerCase(state[1]) \in {"opened", "closed"} THEN LowerCase(state[1])
  ELSE IF LowerCase(state[1]) = "open" THEN "opened"
  ELSE "all"

\* normalizeSort(value)
normalizeSort(value) ==
  IF ~TruthyString(value) \/ value[1] \notin SortModes THEN "updated_desc"
  ELSE value[1]

\* the place of a character in the collation order of localeCompare: the
\* space first, then the letters without regard to case
CollationRank(c) ==
  LET l == LowerChar(c) IN
  CASE l = " " -> 0 [] l = "a" -> 1 [] l = "b" -> 2 [] l = "f" -> 6
    [] l = "g" -> 7 [] l = "i" -> 9 [] l = "p" -> 16 [] l = "u" -> 21
    [] l = "x" -> 24 [] l = "y" -> 25 [] OTHER -> 30

RECURSIVE localeCompare(_, _)
\* a.localeCompare(b): negative, zero or positive
localeCompare(a, b) ==
  IF a = <<>> /\ b = <<>> THEN 0
  ELSE IF a = <<>> THEN 0 - 1
  ELSE IF b = <<>> THEN 1
  ELSE IF CollationRank(Head(a)) # CollationRank(Head(b))
  THEN CollationRank(Head(a)) - CollationRank(Head(b))
  ELSE localeCompare(Tail(a), Tail(b))

\* a comparator that orders every time mode by the latest instant first
CompareIssues_LatestFirst(sortMode, a, b) ==
  CASE sortMode = "updated_asc" -> b.updatedAt - a.updatedAt
    [] sortMode = "created_desc" -> b.createdAt - a.createdAt
    [] sortMode = "created_asc" -> b.createdAt - a.createdAt
    [] sortMode = "title_asc" -> localeCompare(a.title, b.title)
    [] OTHER -> b.updatedAt - a.updatedAt

\* the comparator of the sort: switch (sortMode) ...
CompareIssues(sortMode, a, b) ==
  CASE sortMode = "updated_asc" -> a.updatedAt - b.updatedAt
    [] sortMode = "created_desc" -> b.createdAt - a.createdAt
    [] sortMode = "created_asc" -> a.createdAt - b.createdAt
    [] sortMode = "title_asc" -> localeCompare(a.title, b.title)
    [] OTHER -> b.updatedAt - a.updatedAt

RECURSIVE InsertSorted(_, _, _)
\* x put behind every element that does not come after it
InsertSorted(sortMode, sorted, x) ==
  IF sorted = <<>> THEN <<x>>
  ELSE IF CompareIssues(sortMode, Head(sorted), x) <= 0
  THEN <<Head(sorted)>> \o InsertSorted(sortMode, Tail(sorted), x)
  ELSE <<x>> \o sorted

RECURSIVE SortInto(_, _, _)
SortInto(sortMode, sorted, rest) ==
  IF rest = <<>> THEN sorted
  ELSE SortInto(sortMode, InsertSorted(sortMode, sorted, Head(rest)), Tail(rest))

\* a sort that returns the issues that compare equal in the reverse of the
\* order it was given them in
SortIssues_TiesReversed(list, sortMode) ==
  SortInto(sortMode, <<>>, [i \in 1..Len(list) |-> list[Len(list) + 1 - i]])

\* a sort that keeps one of the issues that compare equal
SortIssues_DropEqual(list, sortMode) ==
  LET sorted == SortInto(sortMode, <<>>, list) IN
  SelectSeq([i \in 1..Len(sorted) |->
               IF i > 1 /\ CompareIssues(sortMode, sorted[i - 1], sorted[i]) = 0
               THEN <<>> ELSE <<sorted[i]>>],
            LAMBDA e : e # <<>>)

\* list.sort(comparator): Array.prototype.sort is stable
SortIssues(list, sortMode) == SortInto(sortMode, <<>>, list)

\* array.sort(comparator) sorts the array in place: of the arrays held, the
\* one named is reordered
SortInPlace(arrays, name, sortMode) ==
  [arrays EXCEPT ![name] = SortIssues(arrays[name], sortMode)]

\* an applyFilters that sorts the caller's array before it filters
applyFiltersArrays_SortsInput(list, filters) ==
  LET given == [issues |-> list]
      sorted == SortInPlace(given, "issues", normalizeSort(filters.sort)) IN
  [issues |-> sorted.issues,
   filtered |-> FilterIssuesBy(sorted.issues, normalizeState(filters.state),
                               Needle(filters.filterText))]

\* the arrays after the body of applyFilters: issues is the caller's array,
\* filtered the array issues.filter(...) creates and filtered.sort(...) sorts
applyFiltersArrays(list, filters) ==
  LET given == [issues |-> list]
      created == [issues |-> given.issues,
                  filtered |-> FilterIssuesBy(given.issues,
                                              normalizeState(filters.state),
                                              Needle(filters.filterText))] IN
  SortInPlace(created, "filtered", normalizeSort(filters.sort))

\* applyFilters(issues, { filterText, state, sort }): return filtered
applyFilters(list, filters) == applyFiltersArrays(list, filters).filtered

\* the arrays after the body of filteredIssues: issues is projectData.issues,
\* searchFiltered the array filter(...) creates, sorted the copy
\* [...searchFiltered] that is sorted
filteredIssuesArrays(list, filter, filterState, sortBy) ==
  LET created == [issues |-> list,
                  searchFiltered |-> FilterIssuesBy(list, filterState,
                                                    toLowerCase(trim(filter)))]
      copied == [issues |-> created.issues,
                 searchFiltered |-> created.searchFiltered,
                 sorted |-> created.searchFiltered] IN
  SortInPlace(copied, "sorted", sortBy)

\* filteredIssues of the dashboard, for the held issues, filter, filterState
\* and sortBy: return sorted
filteredIssues(list, filter, filterState, sortBy) ==
  filteredIssuesArrays(list, filter, filterState, sortBy).sorted

\* a payload that carries every fetched issue
buildIssuesPayload_AllIssues(resultIssues, filtered) ==
  [totalIssues |-> Len(resultIssues), matchingIssues |-> Len(filtered),
   issues |-> resultIssues]

\* buildIssuesPayload(result, filtered), without result.project and
\* result.labels, which it passes on
buildIssuesPayload(resultIssues, filtered) ==
  [totalIssues |-> Len(resultIssues), matchingIssues |-> Len(filtered),
   issues |-> filtered]

\* the dashboard's types admit the arguments
DashAdmits(filters) ==
  /\ filters.filterText # None
  /\ filters.state \in {Some("all"), Some("opened"), Some("closed")}
  /\ filters.sort \in {Some(m) : m \in SortModes}

\* the filters are applied: the list command calls applyFilters, the
\* dashboard computes filteredIssues where its types admit the arguments;
\* the caller keeps its array and applies the filters to it once more, and
\* applies them to the result
ApplyFilters(list, filters) ==
  LET arrays == applyFiltersArrays(list, filters) IN
  /\ applied' = Some([fn |-> "applyFilters", issues |-> list, filters |-> filters,
                      cli |-> applyFilters(list, filters),
                      dash |-> IF DashAdmits(filters)
                               THEN Some(filteredIssues(list, filters.filterText[1],
                                                        filters.state[1],
                                                        filters.sort[1]))
                               ELSE None,
                      payload |-> buildIssuesPayload(arrays.issues, arrays.filtered),
                      issuesAfter |-> arrays.issues,
                      heldAfter |-> IF DashAdmits(filters)
                                    THEN Some(filteredIssuesArrays(
                                                list, filters.filterText[1],
                                                filters.state[1],
                                                filters.sort[1]).issues)
                                    ELSE None,
                      again |-> applyFilters(arrays.issues, filters),
                      twice |-> applyFilters(arrays.filtered, filters)])
  /\ UNCHANGED <<callVars, dashVars>>

----------------------------------------------------------------------------
(* Properties of the fetcher *)

IsFetch == op.name = "fetchProjectIssues"

\* a response that makes the page fail
FailedPage(resp) == ~resp.ok \/ resp.errors # <<>> \/ resp.project = None

\* a successful page that reports hasNextPage = true
ReportsMore(resp) ==
  /\ ~FailedPage(resp)
  /\ resp.project[1].pageInfo # None
  /\ resp.project[1].pageInfo[1].hasNextPage = TRUE

\* the provider-issued ids of the nodes of one successful page, in server order
PageIds(resp) ==
  IF resp.project[1].nodes = None THEN <<>>
  ELSE [i \in 1..Len(resp.project[1].nodes[1]) |-> resp.project[1].nodes[1][i].id]

RECURSIVE ConcatIds(_)
\* p1.nodes, ..., pn.nodes concatenated in arrival order, as ids
ConcatIds(pages) ==
  IF pages = <<>> THEN <<>> ELSE PageIds(Head(pages)) \o ConcatIds(Tail(pages))

RECURSIVE SumSizes(_)
SumSizes(pages) ==
  IF pages = <<>> THEN 0 ELSE Len(PageIds(Head(pages))) + SumSizes(Tail(pages))

IdsOf(list) == [i \in 1..Len(list) |-> list[i].id]

Distinct(seq) == \A i, j \in 1..Len(seq) : i # j => seq[i] # seq[j]

\* C1: when the pages p1..pn all succeed and only pn reports no further page,
\* the call returns after exactly n requests, and the returned issue list is
\* p1.nodes, ..., pn.nodes concatenated (server order inside a page, pages in
\* arrival order), its length the sum of the page sizes.
C1_PagesConcatenated ==
  /\ (IsFetch /\ received # <<>>
        /\ (\A k \in 1..Len(received) : ~FailedPage(received[k]))
        /\ ~ReportsMore(received[Len(received)]))
       => pc = "done"
  /\ (IsFetch /\ pc = "done")
       => /\ Len(sent) = Len(received)
          /\ \A k \in 1..(Len(received) - 1) : ReportsMore(received[k])
          /\ ~ReportsMore(received[Len(received)])
          /\ IdsOf(result[1].issues) = ConcatIds(received)
          /\ Len(result[1].issues) = SumSizes(received)

\* a two-page fetch has returned: 2 issues from page 1, 1 from page 2
C1_Witness ==
  /\ IsFetch /\ pc = "done"
  /\ Len(sent) = 2
  /\ Len(PageIds(received[1])) = 2
  /\ Len(PageIds(received[2])) = 1
  /\ Len(result[1].issues) = 3

\* C2: the requests of one call are strictly sequential: the first carries
\* after = null, request k+1 leaves only once response k is in and carries
\* that response's endCursor, and at most one request is in flight.
C2_StrictlySequential ==
  IsFetch =>
    /\ Len(inflight) <= 1
    /\ Len(sent) = Len(received) + Len(inflight)
    /\ sent # <<>> => sent[1].after = None
    /\ \A k \in 1..(Len(sent) - 1) :
         /\ ReportsMore(received[k])
         /\ sent[k + 1].after = received[k].project[1].pageInfo[1].endCursor

\* the second request is in flight and carries the cursor of page 1
C2_Witness ==
  /\ IsFetch /\ pc = "await"
  /\ Len(sent) = 2 /\ Len(received) = 1 /\ Len(inflight) = 1
  /\ sent[2].after = Some("c1")

\* C3: a page that fails (HTTP status, GraphQL errors, null project) ends the
\* call in an error after exactly that many requests: no retry, no later
\* page, no result, the issues of the earlier pages included.
C3_FailedPageAborts ==
  IsFetch =>
    \A k \in 1..Len(received) :
      FailedPage(received[k]) =>
        /\ pc = "failed"
        /\ error # None
        /\ result = None
        /\ Len(sent) = k
        /\ Len(received) = k
        /\ inflight = <<>>

\* page 1 brought issues, page 2 failed
C3_Witness ==
  /\ IsFetch /\ pc = "failed"
  /\ Len(received) = 2
  /\ FailedPage(received[2])
  /\ Len(issues) > 0
  /\ result = None

\* C4 as claimed: whatever pages the provider returns, no two issues of a
\* returned issue list have the same provider-issued id.
C4_NoDuplicateIds ==
  (IsFetch /\ pc = "done") => Distinct(IdsOf(result[1].issues))

\* C4 as amended: the returned issue list has no two issues of the same id
\* exactly when the pages the provider returned repeat no id; the fetcher
\* itself removes nothing.
C4_NoDuplicatesIfPagesDisjoint ==
  (IsFetch /\ pc = "done")
    => (Distinct(IdsOf(result[1].issues)) <=> Distinct(ConcatIds(received)))

\* two disjoint non-empty pages were merged
C4_Witness ==
  /\ IsFetch /\ pc = "done"
  /\ Len(received) = 2
  /\ Len(PageIds(received[1])) = 1
  /\ Len(PageIds(received[2])) = 1
  /\ Distinct(ConcatIds(received))
  /\ Len(result[1].issues) = 2

\* the messages of the errors thrown for a missing project path or token
MissingInputMessages ==
  {<<"Missing GitLab project full path.">>,
   <<"Missing GitLab access token.">>,
   <<"Missing token. Set GITLAB_TOKEN or pass --token.">>,
   <<"Missing project path. Set GITLAB_PROJECT_PATH or pass --project.">>}

\* C5: fetchProjectIssues with an empty projectPath or an empty token fails
\* with a validation error and dispatches no network request.
C5_FetchFailsFast ==
  (IsFetch /\ (op.projectPath = "" \/ op.token = ""))
    => /\ pc = "failed"
       /\ error \in MissingInputMessages
       /\ result = None
       /\ sent = <<>>

\* the library fetch was called with a project path and an empty token
C5_Witness ==
  /\ IsFetch /\ op.surface = "lib"
  /\ op.projectPath # "" /\ op.token = ""
  /\ pc = "failed"

\* the message of a failed HTTP status, as either fetcher words it
StatusMessages(resp) ==
  {<<"GitLab GraphQL responded with", resp.status, resp.statusText>>,
   <<"GitLab GraphQL responded", resp.status, resp.statusText>>}

\* C13: each failure cause of a page has its own error, tested in this
\* order: a non-success HTTP status gives the error with the status code and
\* text; otherwise a non-empty errors array gives the error with the messages
\* joined into one; otherwise a null project gives the not-found error.  A
\* response with both errors and a null project gives the joined messages.
C13_FailureKindsInOrder ==
  (IsFetch /\ received # <<>>) =>
    LET resp == received[Len(received)] IN
    /\ ~resp.ok => (pc = "failed" /\ error \in StatusMessages(resp))
    /\ (resp.ok /\ resp.errors # <<>>)
         => (pc = "failed" /\ error = Join(resp.errors, "; "))
    /\ (resp.ok /\ resp.errors = <<>> /\ resp.project = None)
         => (pc = "failed" /\ error = <<"Project not found or access denied.">>)
    /\ (resp.ok /\ resp.errors = <<>> /\ resp.project # None) => pc # "failed"

\* the library fetch received two errors and a null project
C13_Witness ==
  /\ IsFetch /\ op.surface = "lib" /\ pc = "failed"
  /\ received # <<>>
  /\ received[Len(received)].ok
  /\ Len(received[Len(received)].errors) = 2
  /\ received[Len(received)].project = None
  /\ error = <<"boom", "; ", "bang">>

----------------------------------------------------------------------------
(* The mutators as a state machine *)

\* a call starts only from the idle state, a response arrives only while
\* one is awaited (the guards are repeated here so that the inputs are
\* enumerated only where the action can fire)
MutNext ==
  \/ /\ pc = "idle"
     /\ \E p \in ProjectPaths, t \in Tokens, input \in CreateIssueInputs :
          LibCreateIssue(p, t, input)
     /\ UNCHANGED <<dashVars, applied>>
  \/ /\ pc = "idle"
     /\ \E p \in ProjectPaths, t \in Tokens, input \in UpdateIssueLabelsInputs :
          LibUpdateIssueLabels(p, t, input)
     /\ UNCHANGED <<dashVars, applied>>
  \/ /\ pc = "idle"
     /\ \E p \in ProjectPaths, t \in Tokens, input \in UpdateIssueInputs :
          LibUpdateIssue(p, t, input)
     /\ UNCHANGED <<dashVars, applied>>
  \/ /\ pc = "await"
     /\ \E resp \in RestResponses : LibMutatorReceive(resp)
     /\ UNCHANGED <<dashVars, applied>>
  \/ /\ pc = "idle"
     /\ \E p \in ProjectPaths, t \in Tokens, args \in UpdateArgs :
          CliUpdateCall(p, t, args)
     /\ UNCHANGED <<dashVars, applied>>
  \/ /\ pc = "await"
     /\ \E resp \in RestResponses : CliUpdateReceive(resp)
     /\ UNCHANGED <<dashVars, applied>>
  \/ /\ pc = "idle"
     /\ \E p \in ProjectPaths, t \in Tokens, args \in CreateArgs :
          CliCreateCall(p, t, args)
     /\ UNCHANGED <<dashVars, applied>>
  \/ /\ pc = "await"
     /\ \E resp \in RestResponses : CliCreateReceive(resp)
     /\ UNCHANGED <<dashVars, applied>>

MutSpec == Init /\ [][MutNext]_vars

----------------------------------------------------------------------------
(* Properties of the mutators *)

IsMutator == op.name \in {"createIssue", "updateIssueLabels", "updateIssue"}

\* C6 as claimed: createIssue, updateIssueLabels and updateIssue called with
\* an empty projectPath or an empty token fail with a validation error and
\* dispatch no network request, as fetchProjectIssues does.
C6_MutatorsFailFast ==
  (IsMutator /\ (op.projectPath = "" \/ op.token = ""))
    => /\ pc = "failed"
       /\ sent = <<>>

\* the update names an issue
IidGiven ==
  IF op.surface = "lib" THEN op.input.issueIid # ""
  ELSE op.args.iid # None /\ op.args.iid[1] # ""

\* the update as the caller gave it: the input record of the library call,
\* the flags merged over the data file for the command
GivenUpdate ==
  IF op.surface = "lib" THEN op.input
  ELSE LET file == IF op.args.dataFile = None THEN EmptyFile
                   ELSE op.args.dataFile[1] IN
       [title |-> IF op.args.title # None THEN op.args.title ELSE file.title,
        description |-> IF op.args.description # None THEN op.args.description
                        ELSE file.description,
        labels |-> IF op.args.labels # None THEN op.args.labels ELSE file.labels,
        stateEvent |-> IF op.args.state # None THEN op.args.state
                       ELSE file.stateEvent,
        healthStatus |-> IF op.args.health # None THEN op.args.health
                         ELSE file.healthStatus,
        timeEstimateSeconds |-> IF op.args.estimate # None THEN op.args.estimate
                                ELSE file.timeEstimateSeconds]

UpdateFields ==
  {"title", "description", "labels", "stateEvent", "healthStatus",
   "timeEstimateSeconds"}

\* the wire name of an input field
WireName(field) ==
  CASE field = "stateEvent" -> "state_event"
    [] field = "healthStatus" -> "health_status"
    [] field = "timeEstimateSeconds" -> "time_estimate"
    [] OTHER -> field

NothingToUpdateMessages ==
  {<<"No fields provided to update.">>,
   <<"No fields provided to update. Add at least one flag.">>}

\* C7: updateIssue with an issueIid and none of the optional fields present
\* fails with a validation error ("nothing to update") and dispatches no
\* request.
C7_NothingToUpdate ==
  (op.name = "updateIssue" /\ IidGiven
     /\ \A f \in UpdateFields : GivenUpdate[f] = None)
    => /\ pc = "failed"
       /\ sent = <<>>
       /\ result = None
       /\ error \in NothingToUpdateMessages \cup MissingInputMessages
       /\ (op.projectPath # "" /\ op.token # "")
            => error \in NothingToUpdateMessages

\* the library updateIssue was called with an issueIid and nothing else
C7_Witness ==
  /\ op.name = "updateIssue" /\ op.surface = "lib"
  /\ op.projectPath # "" /\ op.token # ""
  /\ op.input.issueIid = "7"
  /\ \A f \in UpdateFields : op.input[f] = None
  /\ pc = "failed"
  /\ error = <<"No fields provided to update.">>

\* C8 as claimed: the PUT body of updateIssue holds the wire field of an
\* optional field exactly when the field is present in the input, an empty
\* or falsy value included.
C8_BodyHoldsPresentFields ==
  (op.name = "updateIssue" /\ op.projectPath # "" /\ op.token # ""
     /\ sent # <<>>)
    => \A f \in UpdateFields :
         (GivenUpdate[f] # None) <=> (sent[1].body[WireName(f)] # None)

\* the state token an update was given, if any
GivenStateToken == GivenUpdate.stateEvent

\* C9 as claimed: a state transition is accepted only when it is exactly
\* close or reopen; any other token, from a flag, the data file or the input
\* record, makes updateIssue fail before a request is dispatched.
C9_OnlyCloseOrReopen ==
  (op.name = "updateIssue" /\ IidGiven
     /\ op.projectPath # "" /\ op.token # ""
     /\ GivenStateToken # None
     /\ GivenStateToken[1] \notin {"", "close", "reopen"})
    => /\ pc = "failed"
       /\ sent = <<>>

\* the health indicator a create was given, if any
GivenCreateHealth ==
  IF op.surface = "lib" THEN op.input.healthStatus ELSE op.args.health

\* C10 as claimed: createIssue with a health indicator outside on_track,
\* needs_attention, at_risk fails with a validation error before any request
\* is dispatched.
C10_CreateRejectsBadHealth ==
  (op.name = "createIssue"
     /\ op.projectPath # "" /\ op.token # ""
     /\ GivenCreateHealth # None
     /\ GivenCreateHealth[1] \notin {"on_track", "needs_attention", "at_risk"})
    => /\ pc = "failed"
       /\ sent = <<>>

\* the text of the --estimate flag of a command, if any
GivenEstimateText ==
  IF op.name \in {"createIssue", "updateIssue"} /\ op.surface = "cli"
  THEN op.args.estimate ELSE None

\* the estimate is a number of hours that is negative or not finite
BadEstimate(text) ==
  text \in {"-1", "abc"}

\* C11 as claimed: createIssue with a time estimate in hours that is negative
\* or not finite fails with a validation error and dispatches no request; it
\* does not create the issue without an estimate.
C11_CreateRejectsBadEstimate ==
  (op.name = "createIssue" /\ op.surface = "cli"
     /\ GivenEstimateText # None /\ BadEstimate(GivenEstimateText[1]))
    => /\ pc = "failed"
       /\ sent = <<>>

\* the number of whole seconds nearest to a number of tenths of a second
NearestSecond(units) ==
  CHOOSE s \in 0..6000 : 10 * s - 5 <= units /\ units < 10 * s + 5

\* round(h * 3600) of the estimate texts that are finite and not negative
ExpectedSeconds(text) ==
  CASE text = "1.5" -> NearestSecond(54000)
    [] text = "0" -> NearestSecond(0)
    [] text = "0.00025" -> NearestSecond(9)

\* C12 as claimed: for every finite non-negative estimate h in hours, 0 and
\* fractions included, the request of the create and update commands holds
\* the wire field time_estimate = round(h * 3600), a whole number of seconds.
C12_EstimateInWholeSeconds ==
  (GivenEstimateText # None /\ ~BadEstimate(GivenEstimateText[1])
     /\ sent # <<>>)
    => sent[1].body.time_estimate = Some(Some(ExpectedSeconds(GivenEstimateText[1])))

\* C14 as claimed: every mutator that receives a non-success HTTP response
\* fails with an error whose message holds the text of the response body next
\* to the status, and returns no issue and no label.
C14_FailureCarriesBodyText ==
  (IsMutator /\ op.projectPath # "" /\ op.token # ""
     /\ received # <<>> /\ ~received[1].ok)
    => /\ pc = "failed"
       /\ result = None
       /\ \E i \in 1..Len(error) : error[i] = received[1].status
       /\ \E i \in 1..Len(error) : error[i] = received[1].text

----------------------------------------------------------------------------
(* Properties of the dashboard *)

\* the request `call` settles in this step, successfully or not
SettlesNow(call) ==
  /\ call \in calls
  /\ call \notin calls'
  /\ lastOutcome' # None
  /\ lastOutcome'[1].call = call

\* the positions of the issue in the held list
PositionsOf(issue) ==
  IF projectData = None THEN {}
  ELSE {i \in 1..Len(projectData[1].issues) : projectData[1].issues[i] = issue}

\* C15 as claimed: after a successful edit of a held issue X that came from
\* fetchProjectIssues, the held list has the same length and order, the entry
\* at the position of X is the issue updateIssue returned, and every other
\* entry is unchanged.
C15_EditReplacesHeldIssue ==
  [][\A call \in calls :
       (/\ call.handler = "edit"
        /\ SettlesNow(call)
        /\ lastOutcome'[1].ok
        /\ PositionsOf(call.issue[1]) # {})
       => /\ projectData' # None
          /\ Len(projectData'[1].issues) = Len(projectData[1].issues)
          /\ \A i \in 1..Len(projectData[1].issues) :
               projectData'[1].issues[i] =
                 IF i \in PositionsOf(call.issue[1])
                 THEN lastOutcome'[1].value[1]
                 ELSE projectData[1].issues[i]]_vars

ListHandlers == {"load", "refresh", "createRefresh"}

\* next is prev with at most one entry of the issue list replaced
SingleIssueSplice(prev, next) ==
  /\ next.project = prev.project
  /\ next.labels = prev.labels
  /\ Len(next.issues) = Len(prev.issues)
  /\ Cardinality({i \in 1..Len(prev.issues) : next.issues[i] # prev.issues[i]}) <= 1

\* C16: the held ProjectIssuesResult changes only when a list request
\* settles successfully, and then to exactly the result of that fetch, or
\* when an edit or a label update settles successfully, and then by a splice
\* of a single issue; it is empty until the first list result.  A load,
\* refresh, create or edit that fails leaves it unchanged and sets an error
\* message.
C16_HeldResultReplacedOrSpliced ==
  [][/\ (projectData' # projectData) =>
          \E call \in calls :
            /\ SettlesNow(call)
            /\ lastOutcome'[1].ok
            /\ \/ /\ call.handler \in ListHandlers
                  /\ projectData' = lastOutcome'[1].value
               \/ /\ call.handler \in {"edit", "labels"}
                  /\ projectData # None
                  /\ projectData' # None
                  /\ SingleIssueSplice(projectData[1], projectData'[1])
     /\ \A call \in calls :
          (SettlesNow(call) /\ ~lastOutcome'[1].ok) =>
            /\ projectData' = projectData
            /\ IF call.handler = "edit"
               THEN editError' = Some(lastOutcome'[1].message)
               ELSE dashError' = Some(lastOutcome'[1].message)]_vars

\* the held list carries a spliced label, and the refresh after it failed
C16_Witness ==
  /\ projectData # None
  /\ \E i \in 1..Len(projectData[1].issues) :
       projectData[1].issues[i].labels = <<[title |-> "ui"]>>
  /\ lastOutcome # None
  /\ lastOutcome[1].call.handler = "refresh"
  /\ ~lastOutcome[1].ok
  /\ dashError # None

----------------------------------------------------------------------------
(* Label replacement *)

\* the characters of a label title as the wire shows them: a comma inside a
\* title is indistinguishable from the separator
WireSegments(title) ==
  CASE title = "a,b" -> <<"a", ",", "b">>
    [] OTHER -> <<title>>

RECURSIVE WireText(_)
\* the text of the wire field labels, as segments and commas
WireText(tokens) ==
  IF tokens = <<>> THEN <<>>
  ELSE WireSegments(Head(tokens)) \o WireText(Tail(tokens))

RECURSIVE SplitAtCommas(_)
\* the non-empty label names of a comma-separated text, as a set
SplitAtCommas(text) ==
  IF text = <<>> THEN {}
  ELSE (IF Head(text) \in {",", ""} THEN {} ELSE {Head(text)})
       \cup SplitAtCommas(Tail(text))

\* the label set the provider gives the issue when it is sent labels = text:
\* the names of the text and nothing else
ProviderLabelsAfter(request) == SplitAtCommas(WireText(request.body.labels[1]))

TitlesOf(list) == {list[i] : i \in 1..Len(list)}

\* a label list as the provider can hold it: no title is empty or has a comma
PlainTitles(list) == \A i \in 1..Len(list) : list[i] \notin {"", "a,b"}

IsLabelUpdate == op.name = "updateIssueLabels" /\ op.surface = "lib"

\* what C17 asks of a label update whose request has left
LabelsReplaced ==
  /\ Len(sent) = 1
  /\ sent[1].method = "PUT"
  /\ DOMAIN sent[1].body = {"labels"}
  /\ sent[1].body.labels = Some(Join(op.input.labels, ","))
  /\ ProviderLabelsAfter(sent[1]) = TitlesOf(op.input.labels)
  /\ pc = "done" =>
       LET names == Coalesce(received[1].json.labels, <<>>) IN
       result = Some([i \in 1..Len(names) |-> [title |-> names[i]]])

\* C17 as claimed: for every label list L, the empty one included, a
\* successful updateIssueLabels sends a PUT whose body holds only labels =
\* the titles of L joined by commas, after which the label set of the issue at
\* the provider is exactly L, and the call returns the label list of the
\* response, each as {title}.
C17_LabelsReplacedForEveryList ==
  (IsLabelUpdate /\ sent # <<>>) => LabelsReplaced

\* C17 as amended: the same for every label list L whose titles are not
\* empty and hold no comma; a title with a comma reaches the provider as
\* several labels, an empty title as none.
C17_LabelsReplacedForPlainTitles ==
  (IsLabelUpdate /\ sent # <<>> /\ PlainTitles(op.input.labels)) => LabelsReplaced

\* the labels bug, ui were sent for issue 7 and the call returned the labels
\* of the response
C17_Witness ==
  /\ IsLabelUpdate /\ pc = "done"
  /\ op.input.labels = <<"bug", "ui">>
  /\ sent[1].body.labels = Some(<<"bug", ",", "ui">>)
  /\ result = Some(<<[title |-> "bug"], [title |-> "ui"]>>)

----------------------------------------------------------------------------
(* The pure helpers as a state machine                                     *)

\* one helper is applied once to arguments drawn from the sets above
PureNext ==
  \/ /\ applied = None
     /\ \E g \in GraphqlUrls, e \in ExplicitRestUrls : ResolveRestEndpoint(g, e)
  \/ /\ applied = None
     /\ \E list \in IssueLists, filterText \in FilterTexts,
           stateToken \in StateTokens, sortToken \in SortTokens :
          ApplyFilters(list, [filterText |-> filterText, state |-> stateToken,
                              sort |-> sortToken])

PureSpec == Init /\ [][PureNext]_vars

\* the REST endpoint the table of C18 gives
TableEndpoint(graphqlUrl, explicitRestUrl) ==
  IF TruthyUrl(explicitRestUrl)
  THEN (LET e == explicitRestUrl[1] IN
        IF e[Len(e)] = "/" THEN SubSeq(e, 1, Len(e) - 1) ELSE e)
  ELSE IF ~TruthyUrl(graphqlUrl) THEN <<"https://gitlab.com", "/api/v4">>
  ELSE LET g == graphqlUrl[1] IN
       IF g[Len(g)] = "/api/graphql"
       THEN SubSeq(g, 1, Len(g) - 1) \o <<"/api/v4">>
       ELSE <<"https://gitlab.com", "/api/v4">>

Resolved == applied # None /\ applied[1].fn = "resolveRestEndpoint"

\* C18 as claimed: resolveRestEndpoint returns the explicit REST URL with one
\* trailing slash stripped when it is given; else the default when the
\* GraphQL URL is absent; else the GraphQL URL with its trailing /api/graphql
\* replaced by /api/v4, everything before the suffix unchanged, when it ends
\* with /api/graphql; else the default.  The library mutators resolve their
\* REST endpoint by the same table, without the explicit URL.
C18_RestEndpointTable ==
  Resolved =>
    /\ applied[1].cli = TableEndpoint(applied[1].graphqlUrl, applied[1].explicitRestUrl)
    /\ applied[1].lib = TableEndpoint(applied[1].graphqlUrl, None)

----------------------------------------------------------------------------
(* Properties of the filters *)

Filtered == applied # None /\ applied[1].fn = "applyFilters"

\* how often x occurs in the list
Count(x, list) == Cardinality({i \in 1..Len(list) : list[i] = x})

\* the result holds exactly the issues of the input that pass, each as often
\* as the input does
HoldsExactlyPassing(input, output, stateFilter, filterText) ==
  /\ \A i \in 1..Len(output) : \E j \in 1..Len(input) : output[i] = input[j]
  /\ \A j \in 1..Len(input) :
       Count(input[j], output) =
         IF Keeps(input[j], stateFilter, Needle(filterText))
         THEN Count(input[j], input) ELSE 0

\* C19: the result of applyFilters holds exactly the input issues that pass
\* the state filter and the text filter, each as many times as in the input
\* and with its fields unchanged; with state all and an empty text the result
\* is a permutation of the input.  The same holds of the dashboard's
\* filteredIssues.
C19_FilterKeepsExactlyPassing ==
  Filtered =>
    LET a == applied[1] IN
    /\ HoldsExactlyPassing(a.issues, a.cli, normalizeState(a.filters.state),
                           a.filters.filterText)
    /\ a.dash # None =>
         HoldsExactlyPassing(a.issues, a.dash[1], a.filters.state[1],
                             a.filters.filterText)
    /\ (a.filters.state = Some("all") /\ a.filters.filterText = Some(<<>>)) =>
         /\ Len(a.cli) = Len(a.issues)
         /\ \A j \in 1..Len(a.issues) :
              Count(a.issues[j], a.cli) = Count(a.issues[j], a.issues)

\* of three issues the one that does not match was dropped and the one that
\* occurs twice was kept twice
C19_Witness ==
  /\ Filtered
  /\ applied[1].issues = <<FilterIssueA, FilterIssueB, FilterIssueA>>
  /\ applied[1].filters.filterText = Some(<<"f", "r", "o", "n", "t", "e", "n", "d">>)
  /\ applied[1].filters.state = Some("opened")
  /\ applied[1].cli = <<FilterIssueA, FilterIssueA>>
  /\ applied[1].dash = Some(<<FilterIssueA, FilterIssueA>>)

RECURSIVE LowerEach(_)
LowerEach(texts) ==
  IF texts = <<>> THEN <<>>
  ELSE <<toLowerCase(Head(texts))>> \o LowerEach(Tail(texts))

\* the lower-cased text of title, description (empty when absent), state
\* token and label titles, joined by single spaces
SearchedText(issue) ==
  joinTexts(LowerEach(<<issue.title,
                        IF issue.description = None THEN <<>>
                        ELSE issue.description[1],
                        StateChars(issue.state)>>
                      \o [i \in 1..Len(issue.labels) |-> issue.labels[i].title]))

\* needle is a substring of text
IsSubstring(needle, text) ==
  \E i \in 1..(Len(text) + 1) : \E j \in (i - 1)..Len(text) :
    SubSeq(text, i, j) = needle

\* the issue passes the text filter as C20 describes it
PassesTextFilter(issue, filterText) ==
  LET given == IF filterText = None THEN <<>> ELSE filterText[1]
      wanted == toLowerCase(trim(given)) IN
  wanted = <<>> \/ IsSubstring(wanted, SearchedText(issue))

\* C20: an issue passes the text filter if and only if the trimmed,
\* lower-cased filter text is a substring of the lower-cased text of title,
\* description (empty when absent), state token and all label titles joined
\* by single spaces; an empty or blank filter text passes every issue.
C20_TextFilterIsSubstringMatch ==
  (Filtered /\ normalizeState(applied[1].filters.state) = "all") =>
    LET a == applied[1] IN
    /\ \A j \in 1..Len(a.issues) :
         (Count(a.issues[j], a.cli) > 0)
           <=> PassesTextFilter(a.issues[j], a.filters.filterText)
    /\ a.dash # None =>
         \A j \in 1..Len(a.issues) :
           (Count(a.issues[j], a.dash[1]) > 0)
             <=> PassesTextFilter(a.issues[j], a.filters.filterText)

\* frontend found the issue whose only match is its label Frontend, and not
\* the issue without it
C20_Witness ==
  /\ Filtered
  /\ applied[1].issues = <<FilterIssueB, FilterIssueA>>
  /\ applied[1].filters.filterText = Some(<<"f", "r", "o", "n", "t", "e", "n", "d">>)
  /\ applied[1].filters.state = Some("all")
  /\ ~IsSubstring(<<"f", "r", "o", "n", "t", "e", "n", "d">>, toLowerCase(FilterIssueA.title))
  /\ applied[1].cli = <<FilterIssueA>>
  /\ applied[1].dash = Some(<<FilterIssueA>>)

\* the state tokens the state filter is said to know
KnownStates == {Some("all"), Some("opened"), Some("closed")}

\* the token is read as a state: in lower case it is opened, closed or open
ReadAsState(token) ==
  token # None /\ LowerCase(token[1]) \in {"opened", "closed", "open"}

\* the call returned what state all returns: no issue that passes the text
\* filter is missing
FiltersNothingByState(a) ==
  /\ a.cli = applyFilters(a.issues, [a.filters EXCEPT !.state = Some("all")])
  /\ \A j \in 1..Len(a.issues) :
       PassesTextFilter(a.issues[j], a.filters.filterText)
         => Count(a.issues[j], a.cli) > 0

\* C21 as claimed: for every state token that is not exactly one of all,
\* opened, closed (absent included), applyFilters returns what it returns
\* with state all: no issue is excluded because of its state.
C21_UnknownStateFiltersNothing ==
  (Filtered /\ applied[1].filters.state \notin KnownStates)
    => FiltersNothingByState(applied[1])

\* C21 as amended: for every state token that in lower case is none of
\* opened, closed, open (absent included), applyFilters returns what it
\* returns with state all; a token that in lower case is opened or open
\* keeps only the opened issues, one that is closed only the closed ones.
C21_UnreadStateFiltersNothing ==
  Filtered =>
    LET a == applied[1] IN
    /\ ~ReadAsState(a.filters.state) => FiltersNothingByState(a)
    /\ ReadAsState(a.filters.state) =>
         \A i \in 1..Len(a.cli) :
           a.cli[i].state = IF LowerCase(a.filters.state[1]) = "closed"
                            THEN "closed" ELSE "opened"

\* an unknown state token kept the opened and the closed issue
C21_Witness ==
  /\ Filtered
  /\ applied[1].filters = [filterText |-> None, state |-> Some("bogus"),
                           sort |-> None]
  /\ applied[1].issues = <<FilterIssueB, FilterIssueA>>
  /\ applied[1].cli = <<FilterIssueA, FilterIssueB>>

\* the mode a sort token stands for: the token when it is one of the five
\* modes, updated_desc otherwise
EffectiveSort(token) ==
  IF token # None /\ token[1] \in SortModes THEN token[1] ELSE "updated_desc"

\* a may stand directly before b in a list ordered by the mode
InOrder(mode, a, b) ==
  CASE mode = "updated_desc" -> a.updatedAt >= b.updatedAt
    [] mode = "updated_asc" -> a.updatedAt <= b.updatedAt
    [] mode = "created_desc" -> a.createdAt >= b.createdAt
    [] mode = "created_asc" -> a.createdAt <= b.createdAt
    [] mode = "title_asc" -> localeCompare(a.title, b.title) <= 0

\* every adjacent pair of the list is in the order of the mode
Ordered(mode, list) ==
  \A i \in 1..(Len(list) - 1) : InOrder(mode, list[i], list[i + 1])

\* C22: for every sort token the result of applyFilters is ordered by the
\* effective mode (the token when it is one of the five modes, updated_desc
\* otherwise, absent included): adjacent issues are in non-increasing (desc)
\* or non-decreasing (asc) order of the instant of updatedAt / createdAt, or
\* in non-decreasing title order for title_asc.
C22_ResultOrderedByEffectiveSort ==
  Filtered => Ordered(EffectiveSort(applied[1].filters.sort), applied[1].cli)

\* an unrecognized sort token put the issue updated last in front
C22_Witness ==
  /\ Filtered
  /\ applied[1].filters.sort = Some("bogus")
  /\ applied[1].filters.state = None
  /\ applied[1].filters.filterText = None
  /\ applied[1].issues = <<FilterIssueC, FilterIssueA, FilterIssueB>>
  /\ applied[1].cli = <<FilterIssueA, FilterIssueC, FilterIssueB>>

\* C23: applyFilters is pure: the filter creates a fresh list and the sort is
\* applied to that list, so after a call the caller's issue list has the same
\* elements in the same order as before it, and a second call with the same
\* arguments returns the same result.  The dashboard's filteredIssues leaves
\* the held list as it was, too.
C23_InputListUntouched ==
  Filtered =>
    /\ applied[1].issuesAfter = applied[1].issues
    /\ applied[1].again = applied[1].cli
    /\ applied[1].heldAfter # None => applied[1].heldAfter[1] = applied[1].issues

\* a list that was not in the order asked for was returned sorted and is
\* still in its own order
C23_Witness ==
  /\ Filtered
  /\ applied[1].filters.sort = Some("title_asc")
  /\ applied[1].filters.state = Some("all")
  /\ applied[1].issues = <<FilterIssueA, FilterIssueC, FilterIssueB>>
  /\ applied[1].cli = <<FilterIssueB, FilterIssueC, FilterIssueA>>
  /\ applied[1].issuesAfter = <<FilterIssueA, FilterIssueC, FilterIssueB>>
  /\ applied[1].heldAfter = Some(<<FilterIssueA, FilterIssueC, FilterIssueB>>)

\* C24: for every held issue list, every filter text, every state of all,
\* opened, closed and every one of the five sort modes the three surfaces
\* show the same sequence of issues: the dashboard's filteredIssues, the
\* result of applyFilters in the list command, and the issues array of the
\* JSON payload, whose matchingIssues is its length and whose totalIssues is
\* the number of issues fetched.
C24_SurfacesShowSameIssues ==
  (Filtered /\ applied[1].dash # None) =>
    LET a == applied[1] IN
    /\ a.dash[1] = a.cli
    /\ a.payload.issues = a.dash[1]
    /\ a.payload.matchingIssues = Len(a.payload.issues)
    /\ a.payload.totalIssues = Len(a.issues)

\* two closed issues out of three fetched, oldest creation first, on the
\* three surfaces
C24_Witness ==
  /\ Filtered
  /\ applied[1].issues = <<FilterIssueB, FilterIssueA, FilterIssueB>>
  /\ applied[1].filters = [filterText |-> Some(<<"x", " ", "y">>),
                           state |-> Some("closed"), sort |-> Some("created_asc")]
  /\ applied[1].dash = Some(<<FilterIssueB, FilterIssueB>>)
  /\ applied[1].cli = <<FilterIssueB, FilterIssueB>>
  /\ applied[1].payload = [totalIssues |-> 3, matchingIssues |-> 2,
                           issues |-> <<FilterIssueB, FilterIssueB>>]

\* C25: sorting is idempotent: for every issue list and every sort mode,
\* title_asc in particular, applyFilters with that sort applied to the result
\* of applyFilters with the same sort returns the same order.
C25_SortIsIdempotent ==
  Filtered => applied[1].twice = applied[1].cli

\* a list sorted by title stayed as it was when it was sorted by title again
C25_Witness ==
  /\ Filtered
  /\ applied[1].filters = [filterText |-> None, state |-> None,
                           sort |-> Some("title_asc")]
  /\ applied[1].issues = <<FilterIssueA, FilterIssueB, FilterIssueC>>
  /\ applied[1].cli = <<FilterIssueB, FilterIssueC, FilterIssueA>>
  /\ applied[1].twice = <<FilterIssueB, FilterIssueC, FilterIssueA>>

----------------------------------------------------------------------------
(* Termination of the fetcher *)

\* a successful page that does not announce another one: hasNextPage is
\* false, or the page carries no pageInfo
LastPage(resp) == ~FailedPage(resp) /\ ~ReportsMore(resp)

\* C26: under a provider whose page sequence holds a page that reports
\* hasNextPage = false or fails, a call of fetchProjectIssues that has
\* entered its loop eventually returns or fails, and no request is sent
\* after the page that reports hasNextPage = false was received.
C26_FetchTerminates ==
  /\ (IsFetch /\ pc \in {"loop", "await"}) ~> (pc \in {"done", "failed"})
  /\ [](IsFetch =>
          \A k \in 1..Len(received) :
            LastPage(received[k]) => (k = Len(received) /\ Len(sent) = k))

\* the call returned after its second page, which reported hasNextPage =
\* false, with two requests sent and none in flight
C26_Witness ==
  /\ IsFetch /\ pc = "done"
  /\ Len(received) = 2
  /\ ReportsMore(received[1])
  /\ received[2].project[1].pageInfo # None
  /\ received[2].project[1].pageInfo[1].hasNextPage = FALSE
  /\ Len(sent) = 2 /\ inflight = <<>>

----------------------------------------------------------------------------
(* The project snapshot of a fetch *)

\* the call returned a result built from at least one page
ReturnedPages == IsFetch /\ pc = "done" /\ received # <<>>

\* { id, name, webUrl } as the page carries them
PageProject(resp) ==
  [id |-> resp.project[1].id, name |-> resp.project[1].name,
   webUrl |-> resp.project[1].webUrl]

\* the pages that carry a project label list
WithLabels(pages) ==
  {k \in 1..Len(pages) : pages[k].project[1].labels # None}

\* the label list of the last page that carries one, the empty list when no
\* page does
LatestLabels(pages) ==
  IF WithLabels(pages) = {} THEN <<>>
  ELSE pages[CHOOSE k \in WithLabels(pages) :
               \A j \in WithLabels(pages) : j <= k].project[1].labels[1]

\* C27 as claimed: the project reference and the project label list of the
\* result fetchProjectIssues returns are those of the last page received.
C27_SnapshotOfLastPage ==
  ReturnedPages =>
    LET last == received[Len(received)] IN
    /\ result[1].project = PageProject(last)
    /\ result[1].labels = Coalesce(last.project[1].labels, <<>>)

\* C27 as amended: the project reference of the result is that of the last
\* page received, and its label list is that of the last received page that
\* carries a label list (empty when none does); the copies of earlier pages
\* are overwritten, not merged.
C27_SnapshotOfLastPageWithLabels ==
  ReturnedPages =>
    /\ result[1].project = PageProject(received[Len(received)])
    /\ result[1].labels = LatestLabels(received)

\* the two pages differ in the project name and the labels: the result has
\* the name and the one label of the second page
C27_Witness ==
  /\ ReturnedPages
  /\ Len(received) = 2
  /\ received[1].project[1].name = "alpha-renamed"
  /\ received[1].project[1].labels = Some(<<[title |-> "bug"], [title |-> "ui"]>>)
  /\ received[2].project[1].name = "alpha"
  /\ received[2].project[1].labels = Some(<<[title |-> "bug"]>>)
  /\ result[1].project.name = "alpha"
  /\ result[1].labels = <<[title |-> "bug"]>>

----------------------------------------------------------------------------
(* Concurrent requests of the dashboard *)

\* C28 as claimed: responses change the held issue list in the order their
\* requests were issued: the response of a list or refresh request never
\* overwrites the state produced by a list request or a successful edit that
\* was issued after it, under every interleaving of Load, Refresh, Create and
\* Edit.
C28_ResponsesAppliedInIssueOrder ==
  [][\A call \in calls :
       (/\ call.handler \in ListHandlers
        /\ SettlesNow(call)
        /\ lastOutcome'[1].ok)
       => HeldFrom < call.seq]_vars

\* C29 as claimed: when an updateIssue request for issue A completes, by
\* success or by failure, the state of the edit modal (editingIssue, editForm,
\* editError) changes only if the modal is still editing A: with the modal
\* closed in the meantime and opened on issue B, the completion neither
\* closes B's modal, nor discards B's draft, nor shows its error there.
C29_CompletionTouchesOwnModalOnly ==
  [][\A call \in calls :
       (/\ call.handler = "edit"
        /\ SettlesNow(call)
        /\ editingIssue # call.issue)
       => UNCHANGED <<editingIssue, editForm, editError>>]_vars

\* the requests in flight that the handlers of one kind issued; the request
\* of a create is followed by the refresh handleCreateIssue awaits
InFlight(kind) ==
  {call \in calls :
     call.handler \in (CASE kind = "load" -> {"load"}
                         [] kind = "create" -> {"create", "createRefresh"}
                         [] kind = "edit" -> {"edit"})}

\* C30 as claimed: in every reachable state of the dashboard and for each
\* kind of load, create, edit, the busy flag of the kind (isLoading,
\* isCreating, isEditing) is true if and only if a request of that kind is
\* in flight; so at most one request of each kind is in flight, and a flag is
\* false again once its request has completed.
C30_BusyFlagIffInFlight ==
  /\ isLoading <=> InFlight("load") # {}
  /\ isCreating <=> InFlight("create") # {}
  /\ isEditing <=> InFlight("edit") # {}
  /\ \A kind \in {"load", "create", "edit"} : Cardinality(InFlight(kind)) <= 1

====
